---- MODULE Spec2Model ----
(***************************************************************************)
(* Model of the collective-social API: the Postgres tables media_items,    *)
(* reviews, users, tags, feedback and share_links, the list and listitem   *)
(* records of the users' ATProto repositories, and the route handlers of   *)
(* routes/media.ts, collections.ts, tags.ts, feedback.ts, share.ts and the *)
(* activity tracker that read and write them.                              *)
(*                                                                         *)
(* Ratings are integers in tenths of a star (4.5 stars = 45), averages are *)
(* integers in hundredths (decimal(3,2)).  A JavaScript undefined and a    *)
(* SQL NULL are both written NoVal.                                        *)
(***************************************************************************)
EXTENDS Integers, Sequences, FiniteSets, Bags, TLC

VARIABLES
  media_items,   \* table media_items: a set of rows
  mediaSeq,      \* last value of the serial sequence media_items.id
  users,         \* table users: a set of rows [did, isAdmin]
  reviews,       \* table reviews: a bag of rows
  listitems,     \* app.collectivesocial.feed.listitem records of all repos
  rkeySeq,       \* number of record keys handed out so far
  served,        \* number of collection requests accepted so far
  procs,         \* the requests in flight, one context per slot
  epoch,         \* media_items when the first of the requests in flight
                 \* started, and how many requests started since
  last,          \* the request answered last and its response
  tags,          \* table tags: a set of rows [id, name, slug, status]
  tagSeq,        \* last value of the serial sequence tags.id
  media_item_tags, \* table media_item_tags: rows [media_item_id, tag_id, user_did]
  tag_reports,   \* table tag_reports: rows [id, item_id, tag_id,
                 \* reporter_did, status]
  feedback,      \* table feedback: rows [id, userDid, status, adminNotes]
  lists,         \* app.collectivesocial.feed.list records of all repos
  tracking,      \* per new DID, the requests whose tracking found no users
                 \* row and has not created the Inbox yet
  share_links,   \* table share_links: rows [id, shortCode, userDid,
                 \* timesClicked]
  shareProcs,    \* the GET /share/:shortCode requests in flight
  shareOk,       \* per short code, the GET /share/:shortCode answered 200
  feed_events,   \* table feed_events: rows [id, userDid]
  comments,      \* table comments: rows [id, user_did]
  reactions      \* table reactions: rows [id, userDid]

NoVal == "undefined"

\* ---------------------------------------------------------------- bounds
MaxMedia == 2          \* POST /media/add is not offered beyond this many rows
MaxRequests == 5       \* collection requests served one at a time
MaxConcRequests == 2   \* collection requests served when they may overlap

\* ---------------------------------------------------------------- inputs
Users == {"did:u1", "did:u2"}
Titles == {"t1"}
NewTitles == {"t2"}          \* titles PUT /media/:id renames to
Creators == {"c1"}
Isbns == {"i1"}
ImdbIds == {}
Urls == {}
AddMediaTypes == {"book", "movie"}

\* ------------------------------------------------ rating distribution
\* The 11 distribution columns added to media_items by migration 012.
RatingColumns ==
  {"rating0", "rating0_5", "rating1", "rating1_5", "rating2", "rating2_5",
   "rating3", "rating3_5", "rating4", "rating4_5", "rating5"}

\* ------------------------------------------------------ table helpers
\* averageRating is decimal(3,2), here in hundredths.  NullAvg is SQL NULL,
\* NaNAvg the numeric 'NaN' that JavaScript's NaN is stored as.
NullAvg == 0 - 100000
NaNAvg == 100000
AvgLimit == 999        \* largest magnitude decimal(3,2) holds: 9.99

\* executeTakeFirst(): the first row of a result, or undefined (NoRow).
NoId == 0              \* an absent mediaItemId
NoRow == [id |-> NoId]

TakeFirst(rows) ==
  IF rows = {} THEN NoRow
  ELSE CHOOSE r \in rows : \A q \in rows : r.id <= q.id

\* The row POST /media/add inserts: the counters take their column defaults.
\* creator is the creator of the body; the handler may fill an absent one
\* from OpenLibrary or OMDb, which no lookup by ISBN depends on.
NewMediaRow(id, b, did) ==
  [id |-> id, mediaType |-> b.mediaType, title |-> b.title,
   creator |-> b.creator, isbn |-> b.isbn, externalId |-> b.imdbId,
   url |-> b.url, createdBy |-> did,
   totalRatings |-> 0, totalReviews |-> 0, totalSaves |-> 0,
   averageRating |-> NullAvg,
   dist |-> [c \in RatingColumns |-> 0]]

\* ------------------------------------------------------------ responses
Response(route, status, body, failed, escaped) ==
  [route |-> route, status |-> status, body |-> body,
   failed |-> failed, escaped |-> escaped, existed |-> FALSE,
   mediaType |-> NoVal, isbn |-> NoVal, creator |-> NoVal]

\* A rejection that leaves the route callback: the callback itself sends
\* nothing, the rejected promise goes to the handler() wrapper of lib/http.
Escaped(route) == Response(route, 0, "none", TRUE, TRUE)

\* The catch block of a route: res.status(500).json({ error: ... }).
Caught(route) == Response(route, 500, "json", TRUE, FALSE)

Json(route, status) == Response(route, status, "json", FALSE, FALSE)

\* ------------------------------------------------ POST /media/add
\* The lookups of POST /media/add without the one by ISBN.
MediaAddExistingNoIsbn(rows, b) ==
  LET byUrl ==
        IF b.url # NoVal /\ b.mediaType \in {"article", "video", "course"}
        THEN TakeFirst({r \in rows : r.url = b.url /\ r.mediaType = b.mediaType})
        ELSE NoRow
      byImdb ==
        IF byUrl = NoRow /\ b.imdbId # NoVal /\ b.mediaType \in {"movie", "tv"}
        THEN TakeFirst({r \in rows : r.externalId = b.imdbId
                                     /\ r.mediaType = b.mediaType})
        ELSE byUrl
      byTitle ==
        IF byImdb = NoRow /\ b.title # NoVal /\ b.creator # NoVal
        THEN TakeFirst({r \in rows : r.title = b.title /\ r.creator = b.creator
                                     /\ r.mediaType = b.mediaType})
        ELSE byImdb
  IN byTitle

\* The lookups of POST /media/add, in the order the handler tries them.
MediaAddExisting(rows, b) ==
  LET byUrl ==
        IF b.url # NoVal /\ b.mediaType \in {"article", "video", "course"}
        THEN TakeFirst({r \in rows : r.url = b.url /\ r.mediaType = b.mediaType})
        ELSE NoRow
      byIsbn ==
        IF byUrl = NoRow /\ b.isbn # NoVal /\ b.mediaType = "book"
        THEN TakeFirst({r \in rows : r.isbn = b.isbn /\ r.mediaType = b.mediaType})
        ELSE byUrl
      byImdb ==
        IF byIsbn = NoRow /\ b.imdbId # NoVal /\ b.mediaType \in {"movie", "tv"}
        THEN TakeFirst({r \in rows : r.externalId = b.imdbId
                                     /\ r.mediaType = b.mediaType})
        ELSE byIsbn
      byTitle ==
        IF byImdb = NoRow /\ b.title # NoVal /\ b.creator # NoVal
        THEN TakeFirst({r \in rows : r.title = b.title /\ r.creator = b.creator
                                     /\ r.mediaType = b.mediaType})
        ELSE byImdb
  IN byTitle

MediaAddBodies ==
  [title : Titles \cup {NoVal}, creator : Creators \cup {NoVal},
   mediaType : AddMediaTypes, isbn : Isbns \cup {NoVal},
   imdbId : ImdbIds \cup {NoVal}, url : Urls \cup {NoVal}]

\* POST /media/add by the session `did` (NoVal: no session) with body b;
\* fail names the awaited call that rejects.
MediaAdd(did, b, fail) ==
  /\ Cardinality(media_items) < MaxMedia
  /\ UNCHANGED <<users, reviews, listitems, rkeySeq, served, procs, epoch>>
  /\ IF did = NoVal
     THEN /\ fail = "none"
          /\ last' = Json("POST /media/add", 401)
          /\ UNCHANGED <<media_items, mediaSeq>>
     ELSE IF b.title = NoVal \/ b.mediaType = NoVal
     THEN /\ fail = "none"
          /\ last' = Json("POST /media/add", 400)
          /\ UNCHANGED <<media_items, mediaSeq>>
     ELSE IF fail = "select"
     THEN /\ last' = Caught("POST /media/add")
          /\ UNCHANGED <<media_items, mediaSeq>>
     ELSE LET existingItem == MediaAddExisting(media_items, b) IN
          IF existingItem # NoRow
          THEN /\ fail = "none"
               /\ last' = [Json("POST /media/add", 200) EXCEPT
                             !.existed = TRUE, !.mediaType = b.mediaType,
                             !.isbn = b.isbn, !.creator = b.creator]
               /\ UNCHANGED <<media_items, mediaSeq>>
          ELSE IF fail = "insert"
          THEN /\ last' = Caught("POST /media/add")
               /\ UNCHANGED <<media_items, mediaSeq>>
          ELSE /\ mediaSeq' = mediaSeq + 1
               /\ media_items' =
                    media_items \cup {NewMediaRow(mediaSeq + 1, b, did)}
               /\ last' = [Json("POST /media/add", 200) EXCEPT
                             !.mediaType = b.mediaType, !.isbn = b.isbn,
                             !.creator = b.creator]

\* ------------------------------------------------ PUT /media/:id
\* PUT /media/:id: the two selects run before the try block, the update
\* inside it.
MediaUpdate(did, id, title, fail) ==
  /\ UNCHANGED <<mediaSeq, users, reviews, listitems, rkeySeq, served, procs,
                 epoch>>
  /\ IF did = NoVal
     THEN /\ fail = "none"
          /\ last' = Json("PUT /media/:id", 401)
          /\ UNCHANGED media_items
     ELSE IF fail = "selectItem"
     THEN /\ last' = Escaped("PUT /media/:id")
          /\ UNCHANGED media_items
     ELSE LET mediaItem == TakeFirst({r \in media_items : r.id = id}) IN
          IF mediaItem = NoRow
          THEN /\ fail = "none"
               /\ last' = Json("PUT /media/:id", 404)
               /\ UNCHANGED media_items
          ELSE IF fail = "selectUser"
          THEN /\ last' = Escaped("PUT /media/:id")
               /\ UNCHANGED media_items
          ELSE LET isAdmin == \E u \in users : u.did = did /\ u.isAdmin
                   isCreator == mediaItem.createdBy = did
               IN
               IF ~isAdmin /\ ~isCreator
               THEN /\ fail = "none"
                    /\ last' = Json("PUT /media/:id", 403)
                    /\ UNCHANGED media_items
               ELSE IF fail = "update"
               THEN /\ last' = Caught("PUT /media/:id")
                    /\ UNCHANGED media_items
               ELSE /\ fail = "none"
                    /\ media_items' =
                         {IF r.id = id /\ title # NoVal
                          THEN [r EXCEPT !.title = title] ELSE r
                          : r \in media_items}
                    /\ last' = Json("PUT /media/:id", 200)

\* ------------------------------------------------ POST /media/link
\* normalizeUrl(): protocol, host and path; the query string is dropped.
normalizeUrl(url) == IF url = "w1?q" THEN "w1" ELSE url

\* POST /media/link has no try block at all.
MediaLink(did, url, mediaType, fail) ==
  /\ UNCHANGED <<media_items, mediaSeq, users, reviews, listitems, rkeySeq,
                 served, procs, epoch>>
  /\ IF did = NoVal
     THEN /\ fail = "none"
          /\ last' = Json("POST /media/link", 401)
     ELSE IF url = NoVal
     THEN /\ fail = "none"
          /\ last' = Json("POST /media/link", 400)
     ELSE IF mediaType # NoVal /\ mediaType \notin {"article", "video", "course"}
     THEN /\ fail = "none"
          /\ last' = Json("POST /media/link", 400)
     ELSE IF fail = "select"
     THEN last' = Escaped("POST /media/link")
     ELSE LET existingItem ==
                TakeFirst({r \in media_items : r.url = normalizeUrl(url)})
          IN
          IF existingItem # NoRow
          THEN /\ fail = "none"
               /\ last' = [Json("POST /media/link", 200) EXCEPT
                             !.existed = TRUE]
          ELSE /\ fail = "none"
               /\ last' = Json("POST /media/link", 200)

\* =================================================================
\* routes/collections.ts: list items and reviews
\* =================================================================

\* ------------------------------------------------ JavaScript values
\* A numeric column (reviews.rating is decimal(2,1)) comes back from the
\* pg driver as a string; Number() gives the number.  v is in tenths.
PgNumeric(v) == [t |-> "string", v |-> v]
Number(x) == [t |-> "number", v |-> x.v]
JsNumber(v) == [t |-> "number", v |-> v]

\* a !== b on two such values: different types are never equal.
StrictNotEqual(a, b) == a.t # b.t \/ a.v # b.v

\* The review texts a body can carry: undefined, null, '', blanks, a text.
Truthy(review) == review \notin {NoVal, "null", ""}
Trim(review) == IF review = "  " THEN "" ELSE review
HasText(review) == Truthy(review) /\ Trim(review) # ""

\* rating.toString().replace('.', '_') prefixed with "rating".
getRatingColumnName(rating) ==
  "rating" \o ToString(rating.v \div 10)
           \o (IF rating.v % 10 = 0 THEN "" ELSE "_" \o ToString(rating.v % 10))

\* ------------------------------------------------ averageRating

\* currentItem.averageRating ? parseFloat(...) : 0
currentAvg(avg) == IF avg = NullAvg THEN 0 ELSE avg

\* n/d rounded to the nearest integer, halves away from zero: toFixed(2)
\* of a quotient given in hundredths.
RoundDiv(n, d) ==
  IF n >= 0 THEN (2 * n + d) \div (2 * d)
  ELSE 0 - ((2 * (0 - n) + d) \div (2 * d))

\* parseFloat((num / den).toFixed(2)) with num in hundredths; avg is the
\* average that went into num.  0/0 and NaN give NaN, x/0 gives Infinity.
AvgError == 200000     \* Infinity: no numeric column of precision 3 holds it
Quotient(avg, num, den) ==
  IF avg = NaNAvg THEN NaNAvg
  ELSE IF den = 0 THEN (IF num = 0 THEN NaNAvg ELSE AvgError)
  ELSE RoundDiv(num, den)

\* Whether Postgres accepts v for the decimal(3,2) column.
AvgStorable(v) == v = NaNAvg \/ (v # AvgError /\ v <= AvgLimit /\ v >= 0 - AvgLimit)

\* ------------------------------------------------ UPDATE media_items
\* An UPDATE ... WHERE id = m that Postgres rejects changes nothing and
\* throws; DbError is the result of such a statement.
DbError == [error |-> TRUE]
IsDbError(x) == "error" \in DOMAIN x

RowOf(rows, id) == TakeFirst({r \in rows : r.id = id})

\* The table after UPDATE media_items SET <row> WHERE id = row.id.
WithRow(rows, row) == {IF r.id = row.id THEN row ELSE r : r \in rows}

\* SET "col" = "col" + delta for the named columns; in the object literal
\* { [oldCol]: ..., [newCol]: ... } a repeated key keeps the later value.
\* sets is a sequence of <<column, delta>>.
RECURSIVE SetColumns(_, _)
SetColumns(dist, sets) ==
  IF sets = <<>> THEN dist
  ELSE LET col == sets[1][1]
           later == {i \in 2..Len(sets) : sets[i][1] = col}
       IN IF later # {} THEN SetColumns(dist, Tail(sets))
          ELSE [SetColumns(dist, Tail(sets)) EXCEPT ![col] = dist[col] + sets[1][2]]

ColumnsExist(sets) == \A i \in 1..Len(sets) : sets[i][1] \in RatingColumns

\* The new-review update with totalReviews written back as it was read.
NewReviewUpdateStaleReviews(row, cur, rating) ==
  LET avg == currentAvg(cur.averageRating)
      newTotalRatings == cur.totalRatings + 1
      newAverage == Quotient(avg, avg * cur.totalRatings + Number(rating).v * 10,
                             newTotalRatings)
      sets == << <<getRatingColumnName(Number(rating)), 1>> >>
  IN IF ~ColumnsExist(sets) \/ ~AvgStorable(newAverage) THEN DbError
     ELSE [row EXCEPT !.totalRatings = newTotalRatings,
                      !.totalReviews = cur.totalReviews,
                      !.averageRating = newAverage,
                      !.dist = SetColumns(row.dist, sets)]

\* New review: totals from the row read before, the column incremented in
\* SQL.  The review has text on every path that gets here, so
\* newTotalReviews is totalReviews + 1.  row is the row the UPDATE finds, cur the row the SELECT returned.
NewReviewUpdate(row, cur, rating) ==
  LET avg == currentAvg(cur.averageRating)
      newTotalRatings == cur.totalRatings + 1
      newTotalReviews == cur.totalReviews + 1
      newAverage == Quotient(avg, avg * cur.totalRatings + Number(rating).v * 10,
                             newTotalRatings)
      sets == << <<getRatingColumnName(Number(rating)), 1>> >>
  IN IF ~ColumnsExist(sets) \/ ~AvgStorable(newAverage) THEN DbError
     ELSE [row EXCEPT !.totalRatings = newTotalRatings,
                      !.totalReviews = newTotalReviews,
                      !.averageRating = newAverage,
                      !.dist = SetColumns(row.dist, sets)]

\* The rating-changed branch shared by the three handlers: the new average
\* and the two columns.
ChangedRatingSets(oldRating, rating) ==
  << <<getRatingColumnName(Number(oldRating)), 0 - 1>>,
     <<getRatingColumnName(Number(rating)), 1>> >>

ChangedRatingAverage(cur, oldRating, rating) ==
  LET avg == currentAvg(cur.averageRating)
  IN Quotient(avg, avg * cur.totalRatings - Number(oldRating).v * 10
                     + Number(rating).v * 10,
              cur.totalRatings)

\* POST /:listUri/items, item already in the list, review already stored.
UpdateReviewPostExisting(row, cur, existingReview, review, rating) ==
  LET hadTextReview == HasText(existingReview.review)
      hasTextReview == HasText(review)
      reviewCountChange ==
        IF ~hadTextReview /\ hasTextReview THEN 1
        ELSE IF hadTextReview /\ ~hasTextReview THEN 0 - 1 ELSE 0
      oldRating == existingReview.rating
  IN IF StrictNotEqual(oldRating, Number(rating))
     THEN LET newAverage == ChangedRatingAverage(cur, oldRating, rating)
              sets == ChangedRatingSets(oldRating, rating)
          IN IF ~ColumnsExist(sets) \/ ~AvgStorable(newAverage) THEN DbError
             ELSE [row EXCEPT
                     !.totalReviews = cur.totalReviews + reviewCountChange,
                     !.averageRating = newAverage,
                     !.dist = SetColumns(row.dist, sets)]
     ELSE IF reviewCountChange # 0
     THEN [row EXCEPT !.totalReviews = cur.totalReviews + reviewCountChange]
     ELSE row

\* POST /:listUri/items with a new item, and PUT /:listUri/items/:itemUri:
\* review already stored.
UpdateReviewOther(row, cur, existingReview, rating) ==
  LET oldRating == existingReview.rating
  IN IF StrictNotEqual(oldRating, Number(rating))
     THEN LET newAverage == ChangedRatingAverage(cur, oldRating, rating)
              sets == ChangedRatingSets(oldRating, rating)
          IN IF ~ColumnsExist(sets) \/ ~AvgStorable(newAverage) THEN DbError
             ELSE [row EXCEPT !.averageRating = newAverage,
                              !.dist = SetColumns(row.dist, sets)]
     ELSE row

\* POST /:listUri/items, review cleared: runs when cur.totalRatings > 0.
DeleteReviewPost(row, cur, existingReview) ==
  LET oldRating == existingReview.rating
      newTotalRatings == cur.totalRatings - 1
      newTotalReviews ==
        IF HasText(existingReview.review) THEN cur.totalReviews - 1
        ELSE cur.totalReviews
      sets == << <<getRatingColumnName(Number(oldRating)), 0 - 1>> >>
      avg == currentAvg(cur.averageRating)
      newAverage == Quotient(avg, avg * cur.totalRatings - Number(oldRating).v * 10,
                             newTotalRatings)
  IN IF ~ColumnsExist(sets) THEN DbError
     ELSE IF newTotalRatings = 0
     THEN [row EXCEPT !.totalRatings = 0, !.totalReviews = 0,
                      !.averageRating = 0,
                      !.dist = SetColumns(row.dist, sets)]
     ELSE IF ~AvgStorable(newAverage) THEN DbError
     ELSE [row EXCEPT !.totalRatings = newTotalRatings,
                      !.totalReviews = newTotalReviews,
                      !.averageRating = newAverage,
                      !.dist = SetColumns(row.dist, sets)]

\* PUT /:listUri/items/:itemUri, review cleared: runs when
\* cur.totalReviews > 0.
DeleteReviewPut(row, cur, existingReview) ==
  LET oldRating == existingReview.rating
      newTotalReviews == cur.totalReviews - 1
      avg == currentAvg(cur.averageRating)
      newAverage == Quotient(avg, avg * cur.totalReviews - Number(oldRating).v * 10,
                             newTotalReviews)
  IN IF newTotalReviews = 0
     THEN [row EXCEPT !.totalReviews = 0, !.averageRating = 0]
     ELSE IF ~AvgStorable(newAverage) THEN DbError
     ELSE [row EXCEPT !.totalReviews = newTotalReviews,
                      !.averageRating = newAverage]

\* ------------------------------------------------ table reviews
ReviewKey(r, did, mediaItemId, mediaType) ==
  r.authorDid = did /\ r.mediaItemId = mediaItemId /\ r.mediaType = mediaType

RowsWithKey(rev, did, mediaItemId, mediaType) ==
  {r \in BagToSet(rev) : ReviewKey(r, did, mediaItemId, mediaType)}

NoReview == [authorDid |-> NoVal]

\* selectFrom('reviews') ... executeTakeFirst(): the row as the driver
\* returns it, the rating as a string.
SelectReview(rev, did, mediaItemId, mediaType) ==
  LET rows == RowsWithKey(rev, did, mediaItemId, mediaType)
  IN IF rows = {} THEN NoReview
     ELSE LET r == CHOOSE x \in rows : TRUE
          IN [authorDid |-> r.authorDid, rating |-> PgNumeric(r.rating),
              review |-> r.review]

WithoutKey(rev, did, mediaItemId, mediaType) ==
  LET keep == {r \in BagToSet(rev) : ~ReviewKey(r, did, mediaItemId, mediaType)}
  IN [r \in keep |-> rev[r]]

\* The insert without its onConflict clause and without the unique index.
UpsertReviewPlainInsert(rev, did, mediaItemId, mediaType, rating, review) ==
  rev (+) SetToBag({[authorDid |-> did, mediaItemId |-> mediaItemId,
                     mediaType |-> mediaType, rating |-> Number(rating).v,
                     review |-> Trim(review)]})

\* insertInto('reviews') ... onConflict(columns authorDid, mediaItemId,
\* mediaType).doUpdateSet(rating, review): the unique index
\* reviews_author_media_unique_idx decides between insert and update.
UpsertReview(rev, did, mediaItemId, mediaType, rating, review) ==
  LET row == [authorDid |-> did, mediaItemId |-> mediaItemId,
              mediaType |-> mediaType, rating |-> Number(rating).v,
              review |-> Trim(review)]
  IN IF RowsWithKey(rev, did, mediaItemId, mediaType) # {}
     THEN WithoutKey(rev, did, mediaItemId, mediaType) (+) SetToBag({row})
     ELSE rev (+) SetToBag({row})

\* deleteFrom('reviews') where the three key columns match.
DeleteReview(rev, did, mediaItemId, mediaType) ==
  WithoutKey(rev, did, mediaItemId, mediaType)

\* ------------------------------------------------ listitem records
\* AT-URIs are written [did, rkey]; at://<did>/<collection>/<rkey>.
ListUri == [did |-> "did:u1", rkey |-> 0]
NoItem == [uri |-> NoVal]

\* listRecords that returns the records of every repository.
RepoItemsAnyRepo(items, did) == items

\* listRecords of the repo of did.
RepoItems(items, did) == {i \in items : i.uri.did = did}

FirstItem(items) ==
  IF items = {} THEN NoItem
  ELSE CHOOSE i \in items : \A j \in items : i.uri.rkey <= j.uri.rkey

\* The find() of POST /:listUri/items: by mediaItemId if the body has one,
\* by title otherwise.
FindExistingItem(items, did, listUri, b) ==
  FirstItem({i \in RepoItems(items, did) :
               /\ i.list = listUri
               /\ IF b.mediaItemId # NoId THEN i.mediaItemId = b.mediaItemId
                  ELSE i.title = b.title})

\* The order of a new item: Math.max of the orders in the list, plus 1.
NewOrder(items, did, listUri) ==
  LET orders == {i.order : i \in {j \in RepoItems(items, did) : j.list = listUri}}
  IN IF orders = {} THEN 1
     ELSE (CHOOSE o \in orders : \A q \in orders : q <= o) + 1

\* The status of a request body; a body without the field has none.
ItemStatus(b) == IF "status" \in DOMAIN b THEN b.status ELSE NoVal

\* ------------------------------------------------ request contexts
\* The database and repositories a handler step works on.
Db == [media_items |-> media_items, reviews |-> reviews,
       listitems |-> listitems, rkeySeq |-> rkeySeq]

Idle == [pc |-> "idle"]

\* The context of a request that just arrived.  case says what the
\* request asks for, given the review the handler found stored: "new",
\* "same" (rating as stored), "different", "cleared", or "none".
NewContext(route, did, b, itemUri) ==
  [route |-> route, did |-> did, b |-> b, itemUri |-> itemUri,
   listUri |-> ListUri, pc |-> "begin", status |-> 0, path |-> NoVal, case |-> "none",
   item |-> NoItem, mediaItemId |-> NoId, mediaType |-> NoVal,
   existingReview |-> NoReview, currentItem |-> NoRow, order |-> 0]

\* What is kept of a request once it is answered.
Outcome(c) ==
  [route |-> c.route, status |-> c.status, path |-> c.path, case |-> c.case]

Respond(c, status) == [c EXCEPT !.pc = "done", !.status = status]
Result(d, c) == [db |-> d, c |-> c]

\* The columns the handlers select from media_items.
SelectStats(rows, id) ==
  LET r == RowOf(rows, id)
  IN IF r = NoRow THEN NoRow
     ELSE [id |-> r.id, totalRatings |-> r.totalRatings,
           totalReviews |-> r.totalReviews, averageRating |-> r.averageRating]

\* ------------------------------------------------ handler steps
\* One step of a handler: what it does from one awaited database or
\* repository call to the next.  Calls that touch nothing modelled here
\* (putRecord of the unchanged item, createRecord of the review record,
\* getProfile, the feed_events insert) are part of the step they follow.

\* if (review !== undefined && rating !== undefined && mediaItemId && mediaType)
ReviewFieldsGiven(b) ==
  b.review # NoVal /\ b.rating.t # "undefined" /\ b.mediaItemId # NoId
  /\ b.mediaType # NoVal

\* POST /:listUri/items up to and including listRecords.
PostBegin(d, c) ==
  IF c.did = NoVal THEN Respond(c, 401)
  ELSE IF c.b.title = NoVal THEN Respond(c, 400)
  ELSE LET existingItem == FindExistingItem(d.listitems, c.did, c.listUri, c.b)
       IN IF existingItem # NoItem
          THEN IF ReviewFieldsGiven(c.b)
               THEN [c EXCEPT !.path = "existing", !.item = existingItem,
                              !.mediaItemId = c.b.mediaItemId,
                              !.mediaType = c.b.mediaType, !.pc = "selReview"]
               ELSE Respond([c EXCEPT !.path = "existing",
                                      !.item = existingItem], 200)
          ELSE [c EXCEPT !.path = "new", !.mediaItemId = c.b.mediaItemId,
                         !.mediaType = c.b.mediaType, !.pc = "createRecord",
                         !.order = NewOrder(d.listitems, c.did, c.listUri)]

\* PUT /:listUri/items/:itemUri up to and including listRecords.
PutBegin(d, c) ==
  IF c.did = NoVal THEN Respond(c, 401)
  ELSE IF c.did # c.itemUri.did THEN Respond(c, 403)
  ELSE LET itemRecord ==
             FirstItem({i \in RepoItems(d.listitems, c.did) : i.uri = c.itemUri})
       IN IF itemRecord = NoItem THEN Respond(c, 404)
          ELSE [c EXCEPT !.path = "put", !.item = itemRecord,
                         !.mediaItemId = itemRecord.mediaItemId,
                         !.mediaType = itemRecord.mediaType, !.pc = "selReview"]

\* putRecord of the item found: status || existingData.status in POST,
\* status !== undefined && { status } in PUT.
PutRecord(d, c) ==
  IF c.item = NoItem \/ ItemStatus(c.b) = NoVal THEN d
  ELSE [d EXCEPT !.listitems =
          {IF i.uri = c.item.uri THEN [i EXCEPT !.status = ItemStatus(c.b)]
           ELSE i : i \in @}]

\* createRecord of the new list item.
CreateRecord(d, c) ==
  LET item == [uri |-> [did |-> c.did, rkey |-> d.rkeySeq + 1],
               list |-> c.listUri, title |-> c.b.title,
               mediaItemId |-> c.b.mediaItemId, mediaType |-> c.b.mediaType,
               status |-> ItemStatus(c.b), order |-> c.order]
  IN Result([d EXCEPT !.listitems = @ \cup {item}, !.rkeySeq = @ + 1],
            IF c.b.mediaItemId # NoId
            THEN [c EXCEPT !.item = item, !.pc = "incSaves"]
            ELSE Respond([c EXCEPT !.item = item], 200))

\* totalSaves = totalSaves + 1, then the guard of the review block.
IncrementSaves(d, c) ==
  Result([d EXCEPT !.media_items =
            {IF r.id = c.mediaItemId THEN [r EXCEPT !.totalSaves = @ + 1] ELSE r
             : r \in @}],
         IF HasText(c.b.review) /\ c.b.rating.t # "undefined"
            /\ c.mediaType # NoVal
         THEN [c EXCEPT !.pc = "selReview"]
         ELSE Respond(c, 200))

\* The select of the user's stored review and the branch taken after it.
SelectExistingReview(d, c) ==
  LET existingReview ==
        SelectReview(d.reviews, c.did, c.mediaItemId, c.mediaType)
      cleared == c.b.review \in {"", "null"}
      stores == HasText(c.b.review) /\ c.mediaType # NoVal
      case == IF c.b.rating.t = "undefined" THEN "none"
              ELSE IF stores /\ existingReview = NoReview THEN "new"
              ELSE IF stores /\ existingReview.rating.v = c.b.rating.v THEN "same"
              ELSE IF stores THEN "different"
              ELSE IF cleared /\ existingReview # NoReview THEN "cleared"
              ELSE "none"
      c1 == [c EXCEPT !.existingReview = existingReview, !.case = case]
  IN CASE c.path = "existing" ->
            IF HasText(c.b.review) THEN [c1 EXCEPT !.pc = "upsert"]
            ELSE IF cleared THEN [c1 EXCEPT !.pc = "delete"]
            ELSE Respond(c1, 200)
       [] c.path = "new" -> [c1 EXCEPT !.pc = "upsert"]
       [] c.path = "put" ->
            \* mediaItemId || '' compared with the integer column: for an
            \* item without mediaItemId Postgres rejects the select.
            IF c.mediaItemId = NoId THEN Respond(c, 500)
            ELSE IF c.b.review # NoVal /\ c.b.rating.t # "undefined"
               /\ c.mediaItemId # NoId
            THEN IF HasText(c.b.review) /\ c.mediaType # NoVal
                 THEN [c1 EXCEPT !.pc = "upsert"]
                 ELSE IF cleared THEN [c1 EXCEPT !.pc = "delete"]
                 ELSE Respond(c1, 200)
            ELSE Respond(c1, 200)

Upsert(d, c) ==
  Result([d EXCEPT !.reviews =
            UpsertReview(@, c.did, c.mediaItemId, c.mediaType,
                         c.b.rating, c.b.review)],
         [c EXCEPT !.pc = "selMedia"])

\* The select of currentItem before the statistics are updated.
SelectCurrentItem(d, c) ==
  LET currentItem == SelectStats(d.media_items, c.mediaItemId)
  IN IF currentItem = NoRow THEN Respond(c, 200)
     ELSE [c EXCEPT !.currentItem = currentItem, !.pc = "updMedia"]

\* The update of the statistics after an upsert.
UpdateStats(d, c) ==
  LET row == RowOf(d.media_items, c.mediaItemId)
      isNewReview == c.existingReview = NoReview
      new == IF isNewReview
             THEN NewReviewUpdate(row, c.currentItem, c.b.rating)
             ELSE IF c.path = "existing"
             THEN UpdateReviewPostExisting(row, c.currentItem, c.existingReview,
                                           c.b.review, c.b.rating)
             ELSE UpdateReviewOther(row, c.currentItem, c.existingReview,
                                    c.b.rating)
  IN IF row = NoRow THEN Result(d, Respond(c, 200))
     ELSE IF IsDbError(new) THEN Result(d, Respond(c, 500))
     ELSE Result([d EXCEPT !.media_items = WithRow(@, new)], Respond(c, 200))

\* The delete of the stored review.
Delete(d, c) ==
  Result([d EXCEPT !.reviews =
            DeleteReview(@, c.did, c.mediaItemId, c.mediaType)],
         IF c.existingReview # NoReview
         THEN [c EXCEPT !.pc = "selMediaDel"]
         ELSE Respond(c, 200))

\* The select of currentItem after a delete and the guard on its counter.
SelectCurrentItemDeleted(d, c) ==
  LET currentItem == SelectStats(d.media_items, c.mediaItemId)
      counter == IF c.path = "put" THEN currentItem.totalReviews
                 ELSE currentItem.totalRatings
  IN IF currentItem # NoRow /\ counter > 0
     THEN [c EXCEPT !.currentItem = currentItem, !.pc = "updMediaDel"]
     ELSE Respond(c, 200)

\* The update of the statistics after a delete.
UpdateStatsDeleted(d, c) ==
  LET row == RowOf(d.media_items, c.mediaItemId)
      new == IF c.path = "put"
             THEN DeleteReviewPut(row, c.currentItem, c.existingReview)
             ELSE DeleteReviewPost(row, c.currentItem, c.existingReview)
  IN IF row = NoRow THEN Result(d, Respond(c, 200))
     ELSE IF IsDbError(new) THEN Result(d, Respond(c, 500))
     ELSE Result([d EXCEPT !.media_items = WithRow(@, new)], Respond(c, 200))

\* The step a request in context c takes next on database d.
HandlerStep(d, c) ==
  CASE c.pc = "begin" ->
         IF c.route = "POST items"
         THEN LET c1 == PostBegin(d, c) IN Result(PutRecord(d, c1), c1)
         ELSE Result(d, PutBegin(d, c))
    [] c.pc = "createRecord" -> CreateRecord(d, c)
    [] c.pc = "incSaves" -> IncrementSaves(d, c)
    [] c.pc = "selReview" ->
         \* PUT writes the item after the select, unless the select failed
         Result(IF c.path = "put" /\ c.mediaItemId # NoId
                THEN PutRecord(d, c) ELSE d,
                SelectExistingReview(d, c))
    [] c.pc = "upsert" -> Upsert(d, c)
    [] c.pc = "selMedia" -> Result(d, SelectCurrentItem(d, c))
    [] c.pc = "updMedia" -> UpdateStats(d, c)
    [] c.pc = "delete" -> Delete(d, c)
    [] c.pc = "selMediaDel" -> Result(d, SelectCurrentItemDeleted(d, c))
    [] c.pc = "updMediaDel" -> UpdateStatsDeleted(d, c)

\* A handler run from context c to its response with no other request in
\* between.
RECURSIVE RunToEnd(_, _)
RunToEnd(d, c) ==
  IF c.pc = "done" THEN Result(d, c)
  ELSE LET r == HandlerStep(d, c) IN RunToEnd(r.db, r.c)

\* ------------------------------------------------ requests
NoRating == [t |-> "undefined", v |-> 0]
RatingInputs == {NoRating, JsNumber(5), JsNumber(40), JsNumber(23)}
ReviewInputs == {NoVal, "null", "", "  ", "great"}
ItemMediaTypes == {"book"}
NoUri == [did |-> NoVal, rkey |-> 0]

\* Bodies that name the catalogued media item, with every rating and
\* review text; a body with a title only; a body without title.
ReviewBodies ==
  [title : Titles, mediaItemId : {1}, mediaType : ItemMediaTypes,
   rating : RatingInputs, review : ReviewInputs]
TitleOnlyBody ==
  [title |-> "t1", mediaItemId |-> NoId, mediaType |-> NoVal,
   rating |-> JsNumber(40), review |-> "great"]
NoTitleBody == [TitleOnlyBody EXCEPT !.title = NoVal]

PostRequests ==
  (Users \X (ReviewBodies \cup {TitleOnlyBody}))
    \cup {<<"did:u1", NoTitleBody>>, <<NoVal, TitleOnlyBody>>}

PutBodies ==
  [title : {NoVal}, mediaItemId : {NoId}, mediaType : {NoVal},
   rating : RatingInputs, review : ReviewInputs]

\* The requests offered while others are in flight: reviews submitted and
\* cleared by the two users.
ConcBodies ==
  [title : Titles, mediaItemId : {1}, mediaType : ItemMediaTypes,
   rating : {JsNumber(5), JsNumber(40)}, review : {"", "great"}]
ConcPostRequests == Users \X ConcBodies
ConcPutRequests == {<<i.uri.did, i.uri, b>> : i \in listitems, b \in ConcBodies}

\* PUT by each owner on each of the items, and one request each on an item
\* that does not exist, on a foreign item and without session.
PutRequests ==
  {<<i.uri.did, i.uri, b>> : i \in listitems, b \in PutBodies}
    \cup {<<"did:u1", [did |-> "did:u1", rkey |-> rkeySeq + 1], TitleOnlyBody>>,
          <<"did:u1", [did |-> "did:u2", rkey |-> 1], TitleOnlyBody>>,
          <<NoVal, [did |-> "did:u1", rkey |-> 1], TitleOnlyBody>>}

SetDb(d) ==
  /\ media_items' = d.media_items
  /\ reviews' = d.reviews
  /\ listitems' = d.listitems
  /\ rkeySeq' = d.rkeySeq

\* ------------------------------------------------ one request at a time
\* POST /collections/:listUri/items, run from request to response.
PostItem(did, b) ==
  /\ served < MaxRequests
  /\ served' = served + 1
  /\ LET r == RunToEnd(Db, NewContext("POST items", did, b, NoUri))
     IN SetDb(r.db) /\ last' = Outcome(r.c)
  /\ UNCHANGED <<mediaSeq, users, procs, epoch>>

\* PUT /collections/:listUri/items/:itemUri, run from request to response.
PutItem(did, itemUri, b) ==
  /\ served < MaxRequests
  /\ served' = served + 1
  /\ LET r == RunToEnd(Db, NewContext("PUT item", did, b, itemUri))
     IN SetDb(r.db) /\ last' = Outcome(r.c)
  /\ UNCHANGED <<mediaSeq, users, procs, epoch>>

\* ------------------------------------------------ requests in flight
Procs == {1, 2}
AllIdle == \A p \in Procs : procs[p] = Idle

Started ==
  IF AllIdle THEN [base |-> media_items, n |-> 1]
  ELSE [epoch EXCEPT !.n = IF @ < 3 THEN @ + 1 ELSE @]

\* A request arrives in a free slot and runs up to its listRecords call.
StartPost(p, did, b) ==
  /\ procs[p] = Idle
  /\ served < MaxConcRequests
  /\ served' = served + 1
  /\ procs' = [procs EXCEPT ![p] =
                 PostBegin(Db, NewContext("POST items", did, b, NoUri))]
  /\ epoch' = Started
  /\ UNCHANGED <<media_items, mediaSeq, users, reviews, listitems, rkeySeq, last>>

StartPut(p, did, itemUri, b) ==
  /\ procs[p] = Idle
  /\ served < MaxConcRequests
  /\ served' = served + 1
  /\ procs' = [procs EXCEPT ![p] =
                 PutBegin(Db, NewContext("PUT item", did, b, itemUri))]
  /\ epoch' = Started
  /\ UNCHANGED <<media_items, mediaSeq, users, reviews, listitems, rkeySeq, last>>

\* The next awaited call of the request in slot p.
Step(p) ==
  /\ procs[p].pc \notin {"idle", "done"}
  /\ LET r == HandlerStep(Db, procs[p])
     IN SetDb(r.db) /\ procs' = [procs EXCEPT ![p] = r.c]
  /\ UNCHANGED <<mediaSeq, users, served, epoch, last>>

\* The request in slot p is over and the slot free again.
Finish(p) ==
  /\ procs[p].pc = "done"
  /\ procs' = [procs EXCEPT ![p] = Idle]
  /\ UNCHANGED <<media_items, mediaSeq, users, reviews, listitems, rkeySeq,
                 served, epoch, last>>

\* ------------------------------------------------------ specification
adminTables == <<tags, tagSeq, media_item_tags, tag_reports, feedback>>

repoTables == <<lists, tracking>>
shareTables == <<share_links, shareProcs, shareOk>>
accountTables == <<feed_events, comments, reactions>>
otherTables == <<adminTables, repoTables, shareTables, accountTables>>

vars == <<media_items, mediaSeq, users, reviews, listitems, rkeySeq, served,
          procs, epoch, last, otherTables>>

\* No tag, no tag report and no feedback yet.
NoAdminRows ==
  /\ tags = {} /\ media_item_tags = {} /\ tag_reports = {} /\ feedback = {}
  /\ tagSeq = 0

\* No feed event, no comment and no reaction yet.
NoAccountRows == feed_events = {} /\ comments = {} /\ reactions = {}

\* No list record, no first login under way, no share link.
NewUsers == {"did:u3"}   \* a signed-in DID without users row
NoRepoRows == lists = {} /\ tracking = [did \in NewUsers |-> 0]
ShortCodes == {"a", "b"}   \* the short codes of the share links
NoShareRows ==
  share_links = {} /\ shareProcs = [p \in Procs |-> Idle]
  /\ shareOk = [c \in ShortCodes |-> 0]

SeedUsers ==
  {[did |-> "did:u1", isAdmin |-> FALSE], [did |-> "did:u2", isAdmin |-> TRUE]}

\* A migrated, empty database.
Init ==
  /\ media_items = {}
  /\ mediaSeq = 0
  /\ users = SeedUsers
  /\ reviews = EmptyBag
  /\ listitems = {}
  /\ rkeySeq = 0
  /\ served = 0
  /\ procs = [p \in Procs |-> Idle]
  /\ epoch = [base |-> {}, n |-> 0]
  /\ last = Json("none", 0)
  /\ NoAdminRows
  /\ NoAccountRows
  /\ NoRepoRows
  /\ NoShareRows

\* The database after one book was added through POST /media/add.
SeedBody ==
  [title |-> "t1", creator |-> "c1", mediaType |-> "book", isbn |-> "i1",
   imdbId |-> NoVal, url |-> NoVal]

InitCatalog ==
  /\ media_items = {NewMediaRow(1, SeedBody, "did:u1")}
  /\ mediaSeq = 1
  /\ users = SeedUsers
  /\ reviews = EmptyBag
  /\ listitems = {}
  /\ rkeySeq = 0
  /\ served = 0
  /\ procs = [p \in Procs |-> Idle]
  /\ epoch = [base |-> {}, n |-> 0]
  /\ last = Json("none", 0)
  /\ NoAdminRows
  /\ NoAccountRows
  /\ NoRepoRows
  /\ NoShareRows

NextMedia ==
  \/ /\ \E did \in Users \cup {NoVal}, b \in MediaAddBodies,
           fail \in {"none", "select", "insert"} :
          MediaAdd(did, b, fail)
     /\ UNCHANGED otherTables
  \/ /\ \E did \in Users \cup {NoVal}, id \in 1..(MaxMedia + 1),
           title \in NewTitles \cup {NoVal},
           fail \in {"none", "selectItem", "selectUser", "update"} :
          MediaUpdate(did, id, title, fail)
     /\ UNCHANGED otherTables
  \/ /\ \E did \in Users \cup {NoVal}, url \in {"w1", "w1?q", NoVal},
           mediaType \in {NoVal, "article", "book"},
           fail \in {"none", "select"} :
          MediaLink(did, url, mediaType, fail)
     /\ UNCHANGED otherTables

SpecMedia == Init /\ [][NextMedia]_vars

Next ==
  \/ /\ \E r \in PostRequests : PostItem(r[1], r[2])
     /\ UNCHANGED otherTables
  \/ /\ \E r \in PutRequests : PutItem(r[1], r[2], r[3])
     /\ UNCHANGED otherTables

Spec == InitCatalog /\ [][Next]_vars

NextConc ==
  \E p \in Procs :
    \/ /\ \E r \in ConcPostRequests : StartPost(p, r[1], r[2])
       /\ UNCHANGED otherTables
    \/ /\ \E r \in ConcPutRequests : StartPut(p, r[1], r[2], r[3])
       /\ UNCHANGED otherTables
    \/ Step(p) /\ UNCHANGED otherTables
    \/ Finish(p) /\ UNCHANGED otherTables

\* The catalogue after did:u1 put the book on the list with a 4-star review.
SeedReview ==
  [title |-> "t1", mediaItemId |-> 1, mediaType |-> "book",
   rating |-> JsNumber(40), review |-> "great"]

ReviewedDb ==
  RunToEnd([media_items |-> {NewMediaRow(1, SeedBody, "did:u1")},
            reviews |-> EmptyBag, listitems |-> {}, rkeySeq |-> 0],
           NewContext("POST items", "did:u1", SeedReview, NoUri)).db

InitReviewed ==
  /\ media_items = ReviewedDb.media_items
  /\ mediaSeq = 1
  /\ users = SeedUsers
  /\ reviews = ReviewedDb.reviews
  /\ listitems = ReviewedDb.listitems
  /\ rkeySeq = ReviewedDb.rkeySeq
  /\ served = 0
  /\ procs = [p \in Procs |-> Idle]
  /\ epoch = [base |-> {}, n |-> 0]
  /\ last = Json("none", 0)
  /\ NoAdminRows
  /\ NoAccountRows
  /\ NoRepoRows
  /\ NoShareRows

\* Requests that overlap, on the fresh catalogue or on the reviewed one.
SpecConc == (InitCatalog \/ InitReviewed) /\ [][NextConc]_vars

\* =================================================================
\* Admin-only routes: routes/media.ts, routes/tags.ts, routes/feedback.ts
\* =================================================================

\* if (!user || !user.isAdmin) return 403: the users row of the session
\* DID, read by each admin route.
IsAdminAny(did) == \E u \in users : u.did = did

IsAdmin(did) == \E u \in users : u.did = did /\ u.isAdmin

\* What is kept of an admin request: its route, who asked, the status.
AdminOutcome(route, did, status) ==
  [route |-> route, did |-> did, status |-> status]

\* The tables an admin route can write.
AdminRows == <<media_items, adminTables>>

\* DELETE /media/:id.  media_item_tags and tag_reports reference
\* media_items with ON DELETE CASCADE.
MediaDelete(did, id) ==
  LET route == "DELETE /media/:id" IN
  /\ UNCHANGED <<mediaSeq, users, reviews, listitems, rkeySeq, served, procs,
                 epoch, tags, feedback>>
  /\ IF did = NoVal
     THEN /\ last' = AdminOutcome(route, did, 401)
          /\ UNCHANGED <<media_items, media_item_tags, tag_reports>>
     ELSE IF ~IsAdmin(did)
     THEN /\ last' = AdminOutcome(route, did, 403)
          /\ UNCHANGED <<media_items, media_item_tags, tag_reports>>
     ELSE IF RowOf(media_items, id) = NoRow
     THEN /\ last' = AdminOutcome(route, did, 404)
          /\ UNCHANGED <<media_items, media_item_tags, tag_reports>>
     ELSE /\ media_items' = {r \in media_items : r.id # id}
          /\ media_item_tags' = {t \in media_item_tags : t.media_item_id # id}
          /\ tag_reports' = {t \in tag_reports : t.item_id # id}
          /\ last' = AdminOutcome(route, did, 200)

\* DELETE /media/:itemId/tags/:tagId: the associations of every user.
TagRemove(did, itemId, tagId) ==
  LET route == "DELETE /media/:itemId/tags/:tagId"
      hit == {t \in media_item_tags :
                t.media_item_id = itemId /\ t.tag_id = tagId}
  IN
  /\ UNCHANGED <<media_items, mediaSeq, users, reviews, listitems, rkeySeq,
                 served, procs, epoch, tags, tag_reports, feedback>>
  /\ IF did = NoVal
     THEN /\ last' = AdminOutcome(route, did, 401)
          /\ UNCHANGED media_item_tags
     ELSE IF ~IsAdmin(did)
     THEN /\ last' = AdminOutcome(route, did, 403)
          /\ UNCHANGED media_item_tags
     ELSE /\ media_item_tags' = media_item_tags \ hit
          /\ last' = AdminOutcome(route, did, IF hit = {} THEN 404 ELSE 200)

\* A tag id of the JSON body that is a string of digits.
JsString(v) == [t |-> "string", v |-> v]

\* sourceTagId === targetTagId, on the values of the JSON body.
SameTag(a, b) == ~StrictNotEqual(a, b)

\* POST /admin/tags/merge: three statements, no transaction.  The ids of
\* the body are JavaScript values; Postgres reads a string of digits bound
\* to an integer column as that integer.  The update of a row to a tag
\* that does not exist violates the foreign key.
TagsMerge(did, sourceTag, targetTag) ==
  LET route == "POST /admin/tags/merge"
      sourceTagId == sourceTag.v
      targetTagId == targetTag.v
      duplicate == {t \in media_item_tags :
                      /\ t.tag_id = sourceTagId
                      /\ \E target \in media_item_tags :
                           /\ target.media_item_id = t.media_item_id
                           /\ target.user_did = t.user_did
                           /\ target.tag_id = targetTagId}
      remaining == media_item_tags \ duplicate
      moved == {IF t.tag_id = sourceTagId THEN [t EXCEPT !.tag_id = targetTagId]
                ELSE t : t \in remaining}
      rejected == /\ \E t \in remaining : t.tag_id = sourceTagId
                  /\ \A g \in tags : g.id # targetTagId
  IN
  /\ UNCHANGED <<media_items, mediaSeq, users, reviews, listitems, rkeySeq,
                 served, procs, epoch, tag_reports, feedback>>
  /\ IF did = NoVal
     THEN /\ last' = AdminOutcome(route, did, 401)
          /\ UNCHANGED <<tags, media_item_tags>>
     ELSE IF ~IsAdmin(did)
     THEN /\ last' = AdminOutcome(route, did, 403)
          /\ UNCHANGED <<tags, media_item_tags>>
     ELSE IF sourceTagId = NoId \/ targetTagId = NoId
             \/ SameTag(sourceTag, targetTag)
     THEN /\ last' = AdminOutcome(route, did, 400)
          /\ UNCHANGED <<tags, media_item_tags>>
     ELSE IF rejected
     THEN /\ media_item_tags' = remaining
          /\ last' = AdminOutcome(route, did, 500)
          /\ UNCHANGED tags
     ELSE /\ media_item_tags' = moved
          /\ tags' = {IF g.id = sourceTagId THEN [g EXCEPT !.status = "merged"]
                      ELSE g : g \in tags}
          /\ last' = AdminOutcome(route, did, 200)

\* POST /admin/tag-reports/:reportId/remove-tag.
ReportRemoveTag(did, reportId) ==
  LET route == "POST /admin/tag-reports/:reportId/remove-tag"
      report == RowOf(tag_reports, reportId)
  IN
  /\ UNCHANGED <<media_items, mediaSeq, users, reviews, listitems, rkeySeq,
                 served, procs, epoch, tags, feedback>>
  /\ IF did = NoVal
     THEN /\ last' = AdminOutcome(route, did, 401)
          /\ UNCHANGED <<media_item_tags, tag_reports>>
     ELSE IF ~IsAdmin(did)
     THEN /\ last' = AdminOutcome(route, did, 403)
          /\ UNCHANGED <<media_item_tags, tag_reports>>
     ELSE IF report = NoRow
     THEN /\ last' = AdminOutcome(route, did, 404)
          /\ UNCHANGED <<media_item_tags, tag_reports>>
     ELSE /\ media_item_tags' =
               {t \in media_item_tags :
                  ~(t.media_item_id = report.item_id /\ t.tag_id = report.tag_id)}
          /\ tag_reports' =
               {IF r.item_id = report.item_id /\ r.tag_id = report.tag_id
                THEN [r EXCEPT !.status = "resolved"] ELSE r : r \in tag_reports}
          /\ last' = AdminOutcome(route, did, 200)

\* POST /admin/tag-reports/:reportId/dismiss.
ReportDismiss(did, reportId) ==
  LET route == "POST /admin/tag-reports/:reportId/dismiss" IN
  /\ UNCHANGED <<media_items, mediaSeq, users, reviews, listitems, rkeySeq,
                 served, procs, epoch, tags, media_item_tags, feedback>>
  /\ IF did = NoVal
     THEN /\ last' = AdminOutcome(route, did, 401)
          /\ UNCHANGED tag_reports
     ELSE IF ~IsAdmin(did)
     THEN /\ last' = AdminOutcome(route, did, 403)
          /\ UNCHANGED tag_reports
     ELSE /\ tag_reports' =
               {IF r.id = reportId THEN [r EXCEPT !.status = "dismissed"] ELSE r
                : r \in tag_reports}
          /\ last' = AdminOutcome(route, did, 200)

\* GET /feedback.
FeedbackList(did) ==
  LET route == "GET /feedback" IN
  /\ UNCHANGED <<media_items, mediaSeq, users, reviews, listitems, rkeySeq,
                 served, procs, epoch, adminTables>>
  /\ last' = AdminOutcome(route, did,
               IF did = NoVal THEN 401 ELSE IF ~IsAdmin(did) THEN 403 ELSE 200)

\* parseInt(req.params.id) of an id that is no number.
NaNId == 0 - 1

\* PUT /feedback/:id: the id is parsed and refused before the users row is
\* read.
FeedbackUpdate(did, feedbackId, status, adminNotes) ==
  LET route == "PUT /feedback/:id" IN
  /\ UNCHANGED <<media_items, mediaSeq, users, reviews, listitems, rkeySeq,
                 served, procs, epoch, tags, media_item_tags, tag_reports>>
  /\ IF did = NoVal
     THEN /\ last' = AdminOutcome(route, did, 401)
          /\ UNCHANGED feedback
     ELSE IF feedbackId = NaNId
     THEN /\ last' = AdminOutcome(route, did, 400)
          /\ UNCHANGED feedback
     ELSE IF ~IsAdmin(did)
     THEN /\ last' = AdminOutcome(route, did, 403)
          /\ UNCHANGED feedback
     ELSE IF RowOf(feedback, feedbackId) = NoRow
     THEN /\ last' = AdminOutcome(route, did, 404)
          /\ UNCHANGED feedback
     ELSE /\ feedback' =
               {IF f.id = feedbackId
                THEN [f EXCEPT
                        !.status = IF status # NoVal THEN status ELSE @,
                        !.adminNotes = IF adminNotes # NoVal THEN adminNotes ELSE @]
                ELSE f : f \in feedback}
          /\ last' = AdminOutcome(route, did, 200)

\* The catalogue with two tags on the book, a report of one of them and
\* one feedback message.
\* Two tags whose slugs are their names.
SeedTags ==
  {[id |-> 1, name |-> <<"s", "f">>, slug |-> <<"s", "f">>, status |-> "active"],
   [id |-> 2, name |-> <<"f">>, slug |-> <<"f">>, status |-> "active"]}

InitAdmin ==
  /\ media_items = {NewMediaRow(1, SeedBody, "did:u1")}
  /\ mediaSeq = 1
  /\ users = SeedUsers
  /\ reviews = EmptyBag
  /\ listitems = {}
  /\ rkeySeq = 0
  /\ served = 0
  /\ procs = [p \in Procs |-> Idle]
  /\ epoch = [base |-> {}, n |-> 0]
  /\ last = AdminOutcome("none", NoVal, 0)
  /\ tags = SeedTags
  /\ tagSeq = 2
  /\ media_item_tags =
       {[media_item_id |-> 1, tag_id |-> 1, user_did |-> "did:u1"],
        [media_item_id |-> 1, tag_id |-> 2, user_did |-> "did:u1"],
        [media_item_id |-> 1, tag_id |-> 1, user_did |-> "did:u2"]}
  /\ NoAccountRows
  /\ tag_reports =
       {[id |-> 1, item_id |-> 1, tag_id |-> 1, reporter_did |-> "did:u2",
         status |-> "pending"]}
  /\ feedback = {[id |-> 1, userDid |-> "did:u2", status |-> "new",
                  adminNotes |-> NoVal]}
  /\ NoRepoRows
  /\ NoShareRows

\* Signed-in users with and without admin flag, a signed-in DID without
\* users row, and no session.
AdminRequesters == Users \cup {"did:u3", NoVal}
\* Tag ids of a request body: missing, the tags there are, one there is
\* not, and the first tag written as a string.
TagIds == {JsNumber(NoId), JsNumber(1), JsNumber(2), JsNumber(3), JsString(1)}

NextAdmin ==
  \/ /\ \E did \in AdminRequesters, id \in {1, 2} : MediaDelete(did, id)
     /\ UNCHANGED <<tagSeq, repoTables, shareTables, accountTables>>
  \/ /\ \E did \in AdminRequesters, tagId \in {1, 2} : TagRemove(did, 1, tagId)
     /\ UNCHANGED <<tagSeq, repoTables, shareTables, accountTables>>
  \/ /\ \E did \in AdminRequesters, s \in TagIds, t \in TagIds :
          TagsMerge(did, s, t)
     /\ UNCHANGED <<tagSeq, repoTables, shareTables, accountTables>>
  \/ /\ \E did \in AdminRequesters, reportId \in {1, 2} :
          ReportRemoveTag(did, reportId)
     /\ UNCHANGED <<tagSeq, repoTables, shareTables, accountTables>>
  \/ /\ \E did \in AdminRequesters, reportId \in {1, 2} :
          ReportDismiss(did, reportId)
     /\ UNCHANGED <<tagSeq, repoTables, shareTables, accountTables>>
  \/ /\ \E did \in AdminRequesters : FeedbackList(did)
     /\ UNCHANGED <<tagSeq, repoTables, shareTables, accountTables>>
  \/ /\ \E did \in AdminRequesters, id \in {NaNId, 1, 2},
           status \in {NoVal, "reviewed"}, adminNotes \in {NoVal, "n"} :
          FeedbackUpdate(did, id, status, adminNotes)
     /\ UNCHANGED <<tagSeq, repoTables, shareTables, accountTables>>

SpecAdmin == InitAdmin /\ [][NextAdmin]_vars

\* =================================================================
\* Lists and their items: routes/collections.ts, and the first-login
\* tracking of middleware/trackUserActivity.ts
\* =================================================================
MaxListRequests == 3   \* list requests served one at a time
MaxTracking == 2       \* first requests of a new user that may overlap

\* listUri.match(/^at:\/\/([^\/]+)/)[1]
UriDid(uri) == uri.did

NoList == [uri |-> NoUri]

\* listRecords of the list collection of the repo of did.
RepoLists(ls, did) == {l \in ls : UriDid(l.uri) = did}

\* records.find((record) => record.uri === listUri)
FindList(ls, did, listUri) ==
  IF \E l \in RepoLists(ls, did) : l.uri = listUri
  THEN CHOOSE l \in RepoLists(ls, did) : l.uri = listUri
  ELSE NoList

\* records.some((record) => record.value.isDefault === true)
hasDefaultList(ls, did) == \E l \in RepoLists(ls, did) : l.isDefault

\* visibility || 'public'
OrPublic(visibility) == IF visibility = NoVal THEN "public" ELSE visibility

\* What is kept of a list request once it is answered: the route, the
\* session DID, the AT-URI the request addressed, the status and the
\* URIs of the records the response shows.
ListOutcome(route, did, uri, status, shown) ==
  [route |-> route, did |-> did, uri |-> uri, status |-> status,
   shown |-> shown]

ListRows == <<lists, listitems, media_items, reviews, rkeySeq>>

\* A list request is accepted.
Accept == served < MaxListRequests /\ served' = served + 1

\* POST /collections
CollectionCreate(did, name, visibility) ==
  /\ Accept
  /\ IF did = NoVal
     THEN last' = ListOutcome("POST /", did, NoUri, 401, {})
          /\ UNCHANGED ListRows
     ELSE IF name = NoVal
     THEN last' = ListOutcome("POST /", did, NoUri, 400, {})
          /\ UNCHANGED ListRows
     ELSE LET isDefault == ~hasDefaultList(lists, did)
              uri == [did |-> did, rkey |-> rkeySeq + 1]
          IN /\ lists' = lists \cup
                  {[uri |-> uri, visibility |-> OrPublic(visibility),
                    isDefault |-> isDefault, parentListUri |-> NoUri]}
             /\ rkeySeq' = rkeySeq + 1
             /\ last' = ListOutcome("POST /", did, uri, 200, {})
             /\ UNCHANGED <<listitems, media_items, reviews>>
  /\ UNCHANGED <<mediaSeq, users, procs, epoch, tracking>>

\* PUT /collections/:listUri
CollectionUpdate(did, listUri, name, visibility) ==
  LET route == "PUT /:listUri"
      listRecord == FindList(lists, did, listUri)
      status == IF did = NoVal THEN 401
                ELSE IF name = NoVal THEN 400
                ELSE IF did # UriDid(listUri) THEN 403
                ELSE IF listRecord = NoList THEN 404
                ELSE 200
  IN /\ Accept
     /\ last' = ListOutcome(route, did, listUri, status, {})
     /\ lists' = IF status # 200 THEN lists
                 ELSE {IF l.uri = listUri
                       THEN [l EXCEPT !.visibility =
                               IF visibility = NoVal THEN @ ELSE visibility]
                       ELSE l : l \in lists}
     /\ UNCHANGED <<listitems, media_items, reviews, rkeySeq>>
     /\ UNCHANGED <<mediaSeq, users, procs, epoch, tracking>>

\* DELETE /collections/:listUri
CollectionDelete(did, listUri) ==
  LET route == "DELETE /:listUri"
      listRecord == FindList(lists, did, listUri)
      status == IF did = NoVal THEN 401
                ELSE IF did # UriDid(listUri) THEN 403
                ELSE IF listRecord = NoList THEN 404
                ELSE IF listRecord.isDefault THEN 403
                ELSE 200
  IN /\ Accept
     /\ last' = ListOutcome(route, did, listUri, status, {})
     /\ lists' = IF status # 200 THEN lists
                 ELSE {l \in lists : l.uri # listUri}
     /\ UNCHANGED <<listitems, media_items, reviews, rkeySeq>>
     /\ UNCHANGED <<mediaSeq, users, procs, epoch, tracking>>

\* The status a cloned item gets: completed if the user reviewed the media
\* item, in-progress if the user has it in progress anywhere, otherwise
\* the status of the source item.
CloneStatus(did, src) ==
  IF src.mediaItemId # NoId
     /\ \E r \in BagToSet(reviews) :
          r.authorDid = did /\ r.mediaItemId = src.mediaItemId
  THEN "completed"
  ELSE IF src.mediaItemId # NoId
          /\ \E i \in RepoItems(listitems, did) :
               i.status = "in-progress" /\ i.mediaItemId = src.mediaItemId
  THEN "in-progress"
  ELSE IF src.status = NoVal THEN "want" ELSE src.status

\* The copies of the source items, with record keys from first + 1 on in
\* the order listRecords returned the sources.
ClonedItems(did, sourceItems, newListUri, first) ==
  {[uri |-> [did |-> did,
             rkey |-> first + Cardinality({j \in sourceItems :
                                             j.uri.rkey <= i.uri.rkey})],
    list |-> newListUri, title |-> i.title, mediaItemId |-> i.mediaItemId,
    mediaType |-> IF i.mediaType = NoVal THEN "book" ELSE i.mediaType,
    status |-> CloneStatus(did, i), order |-> i.order]
   : i \in sourceItems}

\* POST /collections/:listUri/clone.  The copies are created without any
\* write to media_items.
CollectionClone(did, sourceListUri) ==
  LET route == "POST /:listUri/clone"
      sourceList == FindList(lists, did, sourceListUri)
      newListUri == [did |-> did, rkey |-> rkeySeq + 1]
      sourceItems == {i \in RepoItems(listitems, did) : i.list = sourceListUri}
  IN /\ Accept
     /\ IF did = NoVal
        THEN last' = ListOutcome(route, did, sourceListUri, 401, {})
             /\ UNCHANGED ListRows
        ELSE IF sourceList = NoList
        THEN last' = ListOutcome(route, did, sourceListUri, 404, {})
             /\ UNCHANGED ListRows
        ELSE /\ lists' = lists \cup
                  {[uri |-> newListUri,
                    visibility |-> OrPublic(sourceList.visibility),
                    isDefault |-> FALSE,
                    parentListUri |->
                      IF sourceList.parentListUri # NoUri
                      THEN sourceList.parentListUri ELSE sourceListUri]}
             /\ listitems' = listitems \cup
                  ClonedItems(did, sourceItems, newListUri, rkeySeq + 1)
             /\ rkeySeq' = rkeySeq + 1 + Cardinality(sourceItems)
             /\ last' = ListOutcome(route, did, sourceListUri, 200, {})
             /\ UNCHANGED <<media_items, reviews>>
     /\ UNCHANGED <<mediaSeq, users, procs, epoch, tracking>>

\* POST /collections/:listUri/items, run from request to response.
PostItemIn(did, listUri, b) ==
  /\ Accept
  /\ LET r == RunToEnd(Db, [NewContext("POST items", did, b, NoUri)
                              EXCEPT !.listUri = listUri])
     IN SetDb(r.db)
        /\ last' = ListOutcome("POST /:listUri/items", did, listUri,
                               r.c.status, {})
  /\ UNCHANGED <<mediaSeq, users, procs, epoch, lists, tracking>>

\* PUT /collections/:listUri/items/:itemUri, run from request to response.
PutItemIn(did, itemUri, b) ==
  /\ Accept
  /\ LET r == RunToEnd(Db, NewContext("PUT item", did, b, itemUri))
     IN SetDb(r.db)
        /\ last' = ListOutcome("PUT /:listUri/items/:itemUri", did, itemUri,
                               r.c.status, {})
  /\ UNCHANGED <<mediaSeq, users, procs, epoch, lists, tracking>>

\* The body of a reorder request that is no array.
NoArray == <<[uri |-> NoUri, order |-> 0 - 1]>>

RECURSIVE Reordered(_, _, _)
\* putRecord of each item of the array that listRecords returned.
Reordered(items, did, updates) ==
  IF updates = <<>> THEN items
  ELSE LET u == Head(updates)
       IN Reordered({IF i.uri = u.uri /\ UriDid(i.uri) = did
                     THEN [i EXCEPT !.order = u.order] ELSE i : i \in items},
                    did, Tail(updates))

\* PUT /collections/:listUri/reorder
ItemsReorder(did, listUri, items) ==
  LET route == "PUT /:listUri/reorder"
      status == IF did = NoVal THEN 401
                ELSE IF items = NoArray THEN 400
                ELSE IF UriDid(listUri) # did THEN 403
                ELSE 200
  IN /\ Accept
     /\ last' = ListOutcome(route, did, listUri, status, {})
     /\ listitems' = IF status # 200 THEN listitems
                     ELSE Reordered(listitems, did, items)
     /\ UNCHANGED <<lists, media_items, reviews, rkeySeq>>
     /\ UNCHANGED <<mediaSeq, users, procs, epoch, tracking>>

\* DELETE /collections/:listUri/items/:itemUri.  The records the routes
\* write carry no rating, so the adjustment of totalReviews for an item
\* with a rating does not run.
ItemDelete(did, listUri, itemUri) ==
  LET route == "DELETE /:listUri/items/:itemUri"
      itemRecord ==
        FirstItem({i \in RepoItems(listitems, did) : i.uri = itemUri})
      status == IF did = NoVal THEN 401
                ELSE IF did # UriDid(listUri) THEN 403
                ELSE IF itemRecord = NoItem THEN 404
                ELSE 200
  IN /\ Accept
     /\ last' = ListOutcome(route, did, itemUri, status, {})
     /\ listitems' = IF status # 200 THEN listitems
                     ELSE listitems \ {itemRecord}
     /\ media_items' =
          IF status # 200 \/ itemRecord.mediaItemId = NoId THEN media_items
          ELSE {IF r.id = itemRecord.mediaItemId
                THEN [r EXCEPT !.totalSaves = @ - 1] ELSE r : r \in media_items}
     /\ UNCHANGED <<lists, reviews, rkeySeq>>
     /\ UNCHANGED <<mediaSeq, users, procs, epoch, tracking>>

\* The filter of the public routes: visibility || 'public' is 'public'.
IsPublic(l) == OrPublic(l.visibility) = "public"

\* The same, letting every list through.
PublicCollectionsUnfiltered(did) == RepoLists(lists, did)

\* The lists GET /collections/public/:did answers with.
PublicCollections(did) == {l \in RepoLists(lists, did) : IsPublic(l)}

\* GET /collections/public/:did, with or without session.
PublicLists(viewer, did) ==
  /\ Accept
  /\ last' = ListOutcome("GET /public/:did", viewer, [did |-> did, rkey |-> 0],
                         200, {l.uri : l \in PublicCollections(did)})
  /\ UNCHANGED ListRows
  /\ UNCHANGED <<mediaSeq, users, procs, epoch, tracking>>

\* GET /collections/public/:did/in-progress, with or without session.
PublicInProgress(viewer, did) ==
  LET publicCollectionUris == {l.uri : l \in PublicCollections(did)}
      inProgressItems ==
        {i \in RepoItems(listitems, did) :
           i.list \in publicCollectionUris /\ i.status = "in-progress"}
  IN /\ Accept
     /\ last' = ListOutcome("GET /public/:did/in-progress", viewer,
                            [did |-> did, rkey |-> 0], 200,
                            {i.uri : i \in inProgressItems})
     /\ UNCHANGED ListRows
     /\ UNCHANGED <<mediaSeq, users, procs, epoch, tracking>>

\* The activity tracker on a request with a session: the select of the
\* users row.  Without row the request goes on to record the first login.
TrackBegin(did) ==
  /\ ~\E u \in users : u.did = did
  /\ tracking[did] < MaxTracking
  /\ tracking' = [tracking EXCEPT ![did] = @ + 1]
  /\ last' = ListOutcome("tracker", did, NoUri, 0, {})
  /\ UNCHANGED <<ListRows, mediaSeq, users, served, procs, epoch>>

\* The first login recorded: the users row is inserted (or, on conflict,
\* updated) and the Inbox list created.
TrackCreate(did) ==
  /\ tracking[did] > 0
  /\ tracking' = [tracking EXCEPT ![did] = @ - 1]
  /\ users' = IF \E u \in users : u.did = did THEN users
              ELSE users \cup {[did |-> did, isAdmin |-> FALSE]}
  /\ lists' = lists \cup
       {[uri |-> [did |-> did, rkey |-> rkeySeq + 1], visibility |-> "public",
         isDefault |-> TRUE, parentListUri |-> NoUri]}
  /\ rkeySeq' = rkeySeq + 1
  /\ last' = ListOutcome("tracker", did, NoUri, 200, {})
  /\ UNCHANGED <<listitems, media_items, reviews, mediaSeq, served, procs, epoch>>

\* The users that send list requests, and no session.
ListRequesters == Users \cup {NoVal}

\* Two users with their Inbox lists, the one of did:u1 written before
\* lists had a visibility; nothing saved yet.
InitLists ==
  /\ media_items = {NewMediaRow(1, SeedBody, "did:u1")}
  /\ mediaSeq = 1
  /\ users = SeedUsers
  /\ reviews = EmptyBag
  /\ listitems = {}
  /\ rkeySeq = 1
  /\ served = 0
  /\ procs = [p \in Procs |-> Idle]
  /\ epoch = [base |-> {}, n |-> 0]
  /\ last = ListOutcome("none", NoVal, NoUri, 0, {})
  /\ NoAdminRows
  /\ NoAccountRows
  /\ NoShareRows
  /\ lists = {[uri |-> ListUri, visibility |-> NoVal, isDefault |-> TRUE,
               parentListUri |-> NoUri],
              [uri |-> [did |-> "did:u2", rkey |-> 1], visibility |-> "public",
               isDefault |-> TRUE, parentListUri |-> NoUri]}
  /\ tracking = [did \in NewUsers |-> 0]

\* Bodies of POST items and PUT item that carry no review.
ListBodies ==
  [title : Titles, mediaItemId : {NoId, 1}, mediaType : ItemMediaTypes,
   rating : {NoRating}, review : {NoVal}, status : {NoVal, "in-progress"}]

\* The AT-URIs a request may address: the lists and items there are.
ListUris == {l.uri : l \in lists}
ItemUris == {i.uri : i \in listitems}

NextLists ==
  \/ /\ \E did \in ListRequesters, name \in {NoVal, "n"},
           visibility \in {NoVal, "private"} :
          CollectionCreate(did, name, visibility)
     /\ UNCHANGED <<adminTables, shareTables, accountTables>>
  \/ /\ \E did \in ListRequesters, listUri \in ListUris, name \in {NoVal, "n"},
           visibility \in {NoVal, "private", "public"} :
          CollectionUpdate(did, listUri, name, visibility)
     /\ UNCHANGED <<adminTables, shareTables, accountTables>>
  \/ /\ \E did \in ListRequesters, listUri \in ListUris :
          CollectionDelete(did, listUri)
     /\ UNCHANGED <<adminTables, shareTables, accountTables>>
  \/ /\ \E did \in ListRequesters, listUri \in ListUris :
          CollectionClone(did, listUri)
     /\ UNCHANGED <<adminTables, shareTables, accountTables>>
  \/ /\ \E did \in Users, listUri \in ListUris, b \in ListBodies :
          PostItemIn(did, listUri, b)
     /\ UNCHANGED <<adminTables, shareTables, accountTables>>
  \/ /\ \E did \in ListRequesters, itemUri \in ItemUris, b \in ListBodies :
          PutItemIn(did, itemUri, b)
     /\ UNCHANGED <<adminTables, shareTables, accountTables>>
  \/ /\ \E did \in ListRequesters, listUri \in ListUris,
           items \in {NoArray} \cup
                     {<<[uri |-> u, order |-> 5]>> : u \in ItemUris} :
          ItemsReorder(did, listUri, items)
     /\ UNCHANGED <<adminTables, shareTables, accountTables>>
  \/ /\ \E did \in ListRequesters, listUri \in ListUris, itemUri \in ItemUris :
          ItemDelete(did, listUri, itemUri)
     /\ UNCHANGED <<adminTables, shareTables, accountTables>>
  \/ /\ \E viewer \in {NoVal, "did:u1"}, did \in Users : PublicLists(viewer, did)
     /\ UNCHANGED <<adminTables, shareTables, accountTables>>
  \/ /\ \E viewer \in {NoVal, "did:u1"}, did \in Users :
          PublicInProgress(viewer, did)
     /\ UNCHANGED <<adminTables, shareTables, accountTables>>

SpecLists == InitLists /\ [][NextLists]_vars

\* The requests a route handler sees come through the tracker first, which
\* calls next() after its awaits: their DID has a users row.
SignedUp == {u.did : u \in users}

\* First logins that may overlap, among the requests that create and
\* update lists.
NextLogin ==
  \/ /\ \E did \in NewUsers : TrackBegin(did)
     /\ UNCHANGED <<adminTables, shareTables, accountTables>>
  \/ /\ \E did \in NewUsers : TrackCreate(did)
     /\ UNCHANGED <<adminTables, shareTables, accountTables>>
  \/ /\ \E did \in SignedUp, name \in {NoVal, "n"},
           visibility \in {NoVal, "private"} :
          CollectionCreate(did, name, visibility)
     /\ UNCHANGED <<adminTables, shareTables, accountTables>>
  \/ /\ \E did \in SignedUp, listUri \in ListUris,
           name \in {NoVal, "n"}, visibility \in {NoVal, "private", "public"} :
          CollectionUpdate(did, listUri, name, visibility)
     /\ UNCHANGED <<adminTables, shareTables, accountTables>>
  \/ /\ \E did \in SignedUp, listUri \in ListUris :
          CollectionClone(did, listUri)
     /\ UNCHANGED <<adminTables, shareTables, accountTables>>

SpecLogin == InitLists /\ [][NextLogin]_vars

\* =================================================================
\* Share links: routes/share.ts
\* =================================================================
MaxResolves == 4   \* GET /share/:shortCode requests

ShareOutcome(status, timesClicked) ==
  [route |-> "GET /share/:shortCode", status |-> status,
   timesClicked |-> timesClicked]

\* GET /share/:shortCode up to the select of the share link; without row
\* the request is answered 404.
ShareSelect(p, shortCode) ==
  /\ shareProcs[p] = Idle
  /\ served < MaxResolves
  /\ served' = served + 1
  /\ IF \E l \in share_links : l.shortCode = shortCode
     THEN LET shareLink == CHOOSE l \in share_links : l.shortCode = shortCode
          IN /\ shareProcs' = [shareProcs EXCEPT ![p] =
                                 [pc |-> "update", shareLink |-> shareLink]]
             /\ UNCHANGED last
     ELSE /\ last' = ShareOutcome(404, 0)
          /\ UNCHANGED shareProcs
  /\ UNCHANGED <<share_links, shareOk>>

\* set timesClicked = shareLink.timesClicked + 1 where id = shareLink.id,
\* and the response.
ShareUpdate(p) ==
  /\ shareProcs[p].pc = "update"
  /\ LET shareLink == shareProcs[p].shareLink
     IN /\ share_links' =
             {IF l.id = shareLink.id
              THEN [l EXCEPT !.timesClicked = shareLink.timesClicked + 1]
              ELSE l : l \in share_links}
        /\ shareOk' = [shareOk EXCEPT ![shareLink.shortCode] = @ + 1]
        /\ last' = ShareOutcome(200, shareLink.timesClicked + 1)
  /\ shareProcs' = [shareProcs EXCEPT ![p] = Idle]
  /\ UNCHANGED served

\* The catalogue with one share link per short code, not clicked yet.
\* Two share links of the first user.
SeedLinks ==
  {[id |-> 1, shortCode |-> "a", userDid |-> "did:u1", timesClicked |-> 0],
   [id |-> 2, shortCode |-> "b", userDid |-> "did:u1", timesClicked |-> 0]}

InitShare ==
  /\ media_items = {NewMediaRow(1, SeedBody, "did:u1")}
  /\ mediaSeq = 1
  /\ users = SeedUsers
  /\ reviews = EmptyBag
  /\ listitems = {}
  /\ rkeySeq = 0
  /\ served = 0
  /\ procs = [p \in Procs |-> Idle]
  /\ epoch = [base |-> {}, n |-> 0]
  /\ last = ShareOutcome(0, 0)
  /\ NoAdminRows
  /\ NoAccountRows
  /\ NoRepoRows
  /\ share_links = SeedLinks
  /\ shareProcs = [p \in Procs |-> Idle]
  /\ shareOk = [c \in ShortCodes |-> 0]

\* What the share route leaves alone.
NoShare ==
  <<media_items, mediaSeq, users, reviews, listitems, rkeySeq, procs, epoch,
    adminTables, repoTables, accountTables>>

NextShare ==
  \/ /\ \E p \in Procs, shortCode \in ShortCodes \cup {"zz"} :
          ShareSelect(p, shortCode)
     /\ UNCHANGED NoShare
  \/ /\ \E p \in Procs : ShareUpdate(p)
     /\ UNCHANGED NoShare

SpecShare == InitShare /\ [][NextShare]_vars

\* =================================================================
\* Tags added by users: POST /media/:itemId/tags
\* =================================================================
\* A tag name is a sequence of characters over a small alphabet: letters
\* of both cases, the space, the underscore, the hyphen and a special
\* character.
WhiteSpace == {" "}
WordChars == {"s", "f", "S", "F", "_"}

toLowerCase(name) ==
  [i \in 1..Len(name) |->
     IF name[i] = "S" THEN "s" ELSE IF name[i] = "F" THEN "f" ELSE name[i]]

RECURSIVE TrimStart(_)
TrimStart(name) ==
  IF name # <<>> /\ Head(name) \in WhiteSpace THEN TrimStart(Tail(name))
  ELSE name

RECURSIVE TrimEnd(_)
TrimEnd(name) ==
  IF name # <<>> /\ name[Len(name)] \in WhiteSpace
  THEN TrimEnd(SubSeq(name, 1, Len(name) - 1))
  ELSE name

\* String.prototype.trim() on a tag name.
trim(name) == TrimEnd(TrimStart(name))

\* The rest of the name after the characters of the class it starts with.
RECURSIVE SkipRun(_, _)
SkipRun(name, class) ==
  IF name # <<>> /\ Head(name) \in class THEN SkipRun(Tail(name), class)
  ELSE name

\* replace(/[class]+/g, by): every run of characters of the class becomes by.
RECURSIVE ReplaceRuns(_, _, _)
ReplaceRuns(name, class, by) ==
  IF name = <<>> THEN <<>>
  ELSE IF Head(name) \in class
  THEN by \o ReplaceRuns(SkipRun(name, class), class, by)
  ELSE <<Head(name)>> \o ReplaceRuns(Tail(name), class, by)

\* replace(/[^\w-]/g, '')
IsSlugChar(c) == c \in WordChars \cup {"-"}
RemoveSpecial(name) == SelectSeq(name, IsSlugChar)

\* replace(/^-|-$/g, ''): one hyphen at the start and one at the end.
StripHyphens(name) ==
  LET start == IF name # <<>> /\ Head(name) = "-" THEN Tail(name) ELSE name
  IN IF start # <<>> /\ start[Len(start)] = "-"
     THEN SubSeq(start, 1, Len(start) - 1)
     ELSE start

normalizeTag(name) ==
  StripHyphens(
    ReplaceRuns(
      RemoveSpecial(
        ReplaceRuns(trim(toLowerCase(name)), WhiteSpace \cup {"_"}, <<"-">>)),
      {"-"}, <<"-">>))

\* select from tags where slug = slug and status = 'active'
ActiveTag(slug) == {g \in tags : g.slug = slug /\ g.status = "active"}

\* POST /media/:itemId/tags: the tag is looked up among the active tags and
\* created when there is none; tags.slug is unique over all tags, and a
\* failed insert has used up a value of the sequence.
TagAdd(did, itemId, tagName) ==
  LET route == "POST /media/:itemId/tags"
      slug == normalizeTag(tagName)
      found == ActiveTag(slug)
      created == [id |-> tagSeq + 1, name |-> trim(tagName), slug |-> slug,
                  status |-> "active"]
      tag == IF found = {} THEN created ELSE CHOOSE g \in found : TRUE
      row == [media_item_id |-> itemId, tag_id |-> tag.id, user_did |-> did]
  IN
  /\ UNCHANGED <<media_items, mediaSeq, users, reviews, listitems, rkeySeq,
                 served, procs, epoch, tag_reports, feedback>>
  /\ IF did = NoVal
     THEN /\ last' = AdminOutcome(route, did, 401)
          /\ UNCHANGED <<tags, tagSeq, media_item_tags>>
     ELSE IF tagName = <<>> \/ trim(tagName) = <<>> \/ slug = <<>>
     THEN /\ last' = AdminOutcome(route, did, 400)
          /\ UNCHANGED <<tags, tagSeq, media_item_tags>>
     ELSE IF \A m \in media_items : m.id # itemId
     THEN /\ last' = AdminOutcome(route, did, 404)
          /\ UNCHANGED <<tags, tagSeq, media_item_tags>>
     ELSE IF found = {} /\ \E g \in tags : g.slug = slug
     THEN /\ tagSeq' = tagSeq + 1
          /\ last' = AdminOutcome(route, did, 500)
          /\ UNCHANGED <<tags, media_item_tags>>
     ELSE /\ tags' = tags \cup {tag}
          /\ tagSeq' = IF found = {} THEN tagSeq + 1 ELSE tagSeq
          /\ IF row \in media_item_tags
             THEN /\ last' = AdminOutcome(route, did, 400)
                  /\ UNCHANGED media_item_tags
             ELSE /\ media_item_tags' = media_item_tags \cup {row}
                  /\ last' = AdminOutcome(route, did, 200)

MaxTagSeq == 4   \* values handed out by the sequence of tags.id

\* Tag names of a request body; the empty one stands for a missing name.
TagNames ==
  {<<"s", "f">>, <<"S", "F", "!">>, <<" ", "f", "_">>, <<"s", " ", "_", "f">>,
   <<"-", "!", " ">>, <<" ">>, <<>>}

NextTags ==
  \/ /\ tagSeq < MaxTagSeq
     /\ \E did \in AdminRequesters, itemId \in {1, 2},
          tagName \in TagNames : TagAdd(did, itemId, tagName)
     /\ UNCHANGED <<repoTables, shareTables, accountTables>>
  \/ /\ \E did \in AdminRequesters, s \in TagIds, t \in TagIds :
          TagsMerge(did, s, t)
     /\ UNCHANGED <<tagSeq, repoTables, shareTables, accountTables>>

SpecTags == InitAdmin /\ [][NextTags]_vars

\* =================================================================
\* Account deletion: DELETE /users/me in routes/user.ts
\* =================================================================
\* deleteFrom('reviews').where('authorDid', '=', userDid)
ReviewsNotBy(rev, userDid) ==
  LET keep == {r \in BagToSet(rev) : r.authorDid # userDid}
  IN [r \in keep |-> rev[r]]

\* DELETE /users/me: five deletes, one table each, then the answer.
UserDelete(did) ==
  LET route == "DELETE /users/me"
  IN
  /\ UNCHANGED <<media_items, mediaSeq, listitems, rkeySeq, served, procs,
                 epoch, tags, tagSeq, media_item_tags, tag_reports, comments,
                 reactions, repoTables, shareProcs, shareOk>>
  /\ IF did = NoVal
     THEN /\ last' = AdminOutcome(route, did, 401)
          /\ UNCHANGED <<users, reviews, feedback, feed_events, share_links>>
     ELSE /\ reviews' = ReviewsNotBy(reviews, did)
          /\ feedback' = {f \in feedback : f.userDid # did}
          /\ feed_events' = {e \in feed_events : e.userDid # did}
          /\ share_links' = {l \in share_links : l.userDid # did}
          /\ users' = {u \in users : u.did # did}
          /\ last' = AdminOutcome(route, did, 200)

\* A database in which both users have rows of every kind.
InitAccount ==
  /\ media_items = ReviewedDb.media_items
  /\ mediaSeq = 1
  /\ users = SeedUsers
  /\ reviews = ReviewedDb.reviews
  /\ listitems = ReviewedDb.listitems
  /\ rkeySeq = ReviewedDb.rkeySeq
  /\ served = 0
  /\ procs = [p \in Procs |-> Idle]
  /\ epoch = [base |-> {}, n |-> 0]
  /\ last = AdminOutcome("none", NoVal, 0)
  /\ tags = SeedTags
  /\ tagSeq = 2
  /\ media_item_tags =
       {[media_item_id |-> 1, tag_id |-> 1, user_did |-> "did:u1"],
        [media_item_id |-> 1, tag_id |-> 1, user_did |-> "did:u2"]}
  /\ tag_reports =
       {[id |-> 1, item_id |-> 1, tag_id |-> 1, reporter_did |-> "did:u2",
         status |-> "pending"]}
  /\ feedback = {[id |-> 1, userDid |-> "did:u1", status |-> "new",
                  adminNotes |-> NoVal],
                 [id |-> 2, userDid |-> "did:u2", status |-> "new",
                  adminNotes |-> NoVal]}
  /\ feed_events = {[id |-> 1, userDid |-> "did:u1"],
                    [id |-> 2, userDid |-> "did:u2"]}
  /\ comments = {[id |-> 1, user_did |-> "did:u2"]}
  /\ reactions = {[id |-> 1, userDid |-> "did:u2"]}
  /\ NoRepoRows
  /\ share_links = SeedLinks
  /\ shareProcs = [p \in Procs |-> Idle]
  /\ shareOk = [c \in ShortCodes |-> 0]

NextAccount ==
  \/ \E did \in AdminRequesters : UserDelete(did)
  \/ /\ tagSeq < MaxTagSeq
     /\ \E did \in AdminRequesters, itemId \in {1, 2},
          tagName \in TagNames : TagAdd(did, itemId, tagName)
     /\ UNCHANGED <<repoTables, shareTables, accountTables>>

SpecAccount == InitAccount /\ [][NextAccount]_vars

\* =================================================================
\* Properties of the review statistics
\* =================================================================

\* The ratings the rating system documents, in tenths, with the
\* distribution column of each.
ValidRatings == {0, 5, 10, 15, 20, 25, 30, 35, 40, 45, 50}
ColumnOf(r) ==
  <<"rating0", "rating0_5", "rating1", "rating1_5", "rating2", "rating2_5",
    "rating3", "rating3_5", "rating4", "rating4_5", "rating5">>[r \div 5 + 1]

\* The reviews rows a step adds or rewrites, and those it removes or
\* rewrites.
RowsIn == {r \in BagToSet(reviews') : ~BagIn(r, reviews)}
RowsOut == {r \in BagToSet(reviews) : ~BagIn(r, reviews')}

\* The request answered by this step, as the handlers classified it.
Answered(case) == served' = served + 1 /\ last'.case = case

\* C1: a review with text and rating r by a user who has none on the media
\* item, through POST or PUT, raises the item's totalRatings, totalReviews
\* and distribution column of r by exactly 1 each.
C1_NewReviewCounted ==
  [][\A r \in RowsIn :
       (Answered("new") /\ r.rating \in ValidRatings) =>
         LET old == RowOf(media_items, r.mediaItemId)
             new == RowOf(media_items', r.mediaItemId)
         IN /\ new.totalRatings = old.totalRatings + 1
            /\ new.totalReviews = old.totalReviews + 1
            /\ new.dist[ColumnOf(r.rating)] = old.dist[ColumnOf(r.rating)] + 1
            /\ \A c \in RatingColumns \ {ColumnOf(r.rating)} :
                 new.dist[c] = old.dist[c]]_vars

\* A second user's new review, through PUT, has been counted.
C1_Witness ==
  /\ last.route = "PUT item" /\ last.case = "new" /\ last.status = 200
  /\ \E m \in media_items : m.totalRatings = 2 /\ m.totalReviews = 2
  /\ BagCardinality(reviews) = 2

\* C2: a stored review deleted by an empty or null text, through POST on an
\* item of the list or through PUT, lowers the item's totalRatings,
\* totalReviews and distribution column of the deleted rating by 1 each.
C2_DeleteCounted ==
  [][\A r \in RowsOut :
       (Answered("cleared") /\ r.rating \in ValidRatings) =>
         LET old == RowOf(media_items, r.mediaItemId)
             new == RowOf(media_items', r.mediaItemId)
         IN /\ new.totalRatings = old.totalRatings - 1
            /\ new.totalReviews = old.totalReviews - 1
            /\ new.dist[ColumnOf(r.rating)] = old.dist[ColumnOf(r.rating)] - 1]_vars

\* C3: a stored review re-submitted with another rating lowers the column
\* of the old rating by 1, raises the column of the new rating by 1 and
\* leaves totalRatings as it is.
C3_RatingChangeMoved ==
  [][\A o \in RowsOut, n \in RowsIn :
       (Answered("different") /\ o.rating \in ValidRatings
          /\ n.rating \in ValidRatings) =>
         LET old == RowOf(media_items, n.mediaItemId)
             new == RowOf(media_items', n.mediaItemId)
         IN /\ new.dist[ColumnOf(o.rating)] = old.dist[ColumnOf(o.rating)] - 1
            /\ new.dist[ColumnOf(n.rating)] = old.dist[ColumnOf(n.rating)] + 1
            /\ new.totalRatings = old.totalRatings]_vars

\* C4: a stored review re-submitted with the rating it already has leaves
\* every distribution column and totalRatings of the item as they are.
C4_SameRatingUntouched ==
  [][Answered("same") =>
       \A old \in media_items :
         LET new == RowOf(media_items', old.id)
         IN new.dist = old.dist /\ new.totalRatings = old.totalRatings]_vars

\* C5: after any sequence or interleaving of review submissions the reviews
\* table holds at most one row per (authorDid, mediaItemId, mediaType); a
\* second submission rewrites the user's row.
C5_OneReviewPerKey ==
  \A r \in BagToSet(reviews) :
    /\ CopiesIn(r, reviews) = 1
    /\ \A q \in BagToSet(reviews) :
         ReviewKey(q, r.authorDid, r.mediaItemId, r.mediaType) => q = r

\* Two overlapping submissions of one user, neither of which found a
\* stored review, left a single row.
C5_Witness ==
  /\ \A p \in Procs : procs[p].pc = "done" /\ procs[p].case = "new"
  /\ procs[1].did = procs[2].did
  /\ procs[1].b.rating # procs[2].b.rating
  /\ BagCardinality(reviews) = 1

\* C6: for every media item totalReviews never exceeds totalRatings, after
\* any sequence and interleaving of review add, update and delete requests.
C6_ReviewsWithinRatings ==
  \A m \in media_items : m.totalReviews <= m.totalRatings

\* C7: every rating the review endpoints store and count is one of the 11
\* values 0, 0.5, ..., 5, so getRatingColumnName yields an existing
\* distribution column for it.
C7_RatingsValid ==
  \A r \in BagToSet(reviews) :
    /\ r.rating \in ValidRatings
    /\ getRatingColumnName(JsNumber(r.rating)) \in RatingColumns

\* The statistics of row after the new reviews with ratings r1 and r2 were
\* added by two requests run one after the other.
SerialNewReviews(row, r1, r2) ==
  LET first == NewReviewUpdate(row, row, r1)
  IN NewReviewUpdate(first, first, r2)

SameStatistics(a, b) ==
  /\ a.totalRatings = b.totalRatings
  /\ a.totalReviews = b.totalReviews
  /\ a.averageRating = b.averageRating

\* C8: two requests of different users that each add a new review of the
\* same media item and overlap leave the totalRatings, totalReviews and
\* averageRating that the two requests leave when run one after the other.
C8_ConcurrentAsSerial ==
  (/\ epoch.n = 2
   /\ \A p \in Procs : /\ procs[p].pc = "done" /\ procs[p].case = "new"
                       /\ procs[p].status = 200
   /\ procs[1].did # procs[2].did
   /\ procs[1].mediaItemId = procs[2].mediaItemId)
  => LET id == procs[1].mediaItemId
         now == RowOf(media_items, id)
         base == RowOf(epoch.base, id)
         r1 == procs[1].b.rating
         r2 == procs[2].b.rating
     IN \/ SameStatistics(now, SerialNewReviews(base, r1, r2))
        \/ SameStatistics(now, SerialNewReviews(base, r2, r1))

\* =================================================================
\* Properties of the media routes
\* =================================================================

NoDupIsbn ==
  \A a, b \in media_items :
    (a.mediaType = "book" /\ b.mediaType = "book" /\ a.isbn # NoVal
       /\ a.isbn = b.isbn) => a.id = b.id

\* C9: after any sequence of POST /media/add requests no two book rows
\* share an ISBN; adding a book whose ISBN is stored answers existed: true
\* and inserts nothing.
C9_IsbnUnique ==
  /\ []NoDupIsbn
  /\ [][(/\ last'.route = "POST /media/add" /\ last'.status = 200
         /\ last'.mediaType = "book" /\ last'.isbn # NoVal
         /\ \E r \in media_items :
              r.mediaType = "book" /\ r.isbn = last'.isbn)
        => (last'.existed /\ media_items' = media_items)]_vars

\* A book was added again under its ISBN, without a creator to match on.
C9_Witness ==
  /\ last.route = "POST /media/add" /\ last.existed
  /\ last.mediaType = "book" /\ last.isbn = "i1" /\ last.creator = NoVal
  /\ Cardinality({r \in media_items : r.isbn = "i1"}) = 1

\* C10: whenever a database or ATProto call of a route handler fails, the
\* handler answers 500 with a JSON error body; the failure neither leaves
\* the request unanswered nor escapes the handler.
C10_FailureAnswered ==
  last.failed => (last.status = 500 /\ last.body = "json" /\ ~last.escaped)

\* =================================================================
\* Properties of the admin routes
\* =================================================================

\* The requester of the step is signed in and its users row, if any, does
\* not have isAdmin.
NonAdminStep ==
  /\ last'.did # NoVal
  /\ ~\E u \in users : u.did = last'.did /\ u.isAdmin

ReviewsOf(id) == {r \in BagToSet(reviews) : r.mediaItemId = id}
ReviewCount(id) ==
  BagCardinality([r \in ReviewsOf(id) |-> reviews[r]])

\* C12: for every media item totalRatings equals the number of reviews
\* rows of that item, after any sequence and interleaving of review
\* submissions and deletions.
C12_RatingsCountRows ==
  (\A p \in Procs : procs[p].pc \in {"idle", "done"}) =>
    \A m \in media_items : m.totalRatings = ReviewCount(m.id)

RECURSIVE SumOver(_, _)
SumOver(f, S) ==
  IF S = {} THEN 0
  ELSE LET x == CHOOSE y \in S : TRUE IN f[x] + SumOver(f, S \ {x})

\* C13: for every media item the 11 distribution columns add up to
\* totalRatings, after any sequence of review additions, rating changes and
\* review deletions through the collections routes.
C13_DistributionSum ==
  \A m \in media_items : SumOver(m.dist, RatingColumns) = m.totalRatings

\* The mean of the ratings of the reviews rows of media item id, in
\* hundredths, rounded to two decimals.
MeanRating(id) ==
  RoundDiv(10 * SumOver([r \in ReviewsOf(id) |-> r.rating * reviews[r]],
                        ReviewsOf(id)),
           ReviewCount(id))

\* C14: for every media item with at least one review averageRating is
\* the mean of the ratings of its reviews rows, rounded to two decimals,
\* after any sequence of review additions, rating changes and deletions.
C14_AverageIsMean ==
  \A m \in media_items :
    ReviewsOf(m.id) # {} => m.averageRating = MeanRating(m.id)

\* C15: totalSaves of a media item is the number of list-item records that
\* reference it, and never negative, after any sequence of add-item,
\* clone-collection, delete-item and delete-collection requests.
C15_SavesCountItems ==
  \A m \in media_items :
    /\ m.totalSaves = Cardinality({i \in listitems : i.mediaItemId = m.id})
    /\ m.totalSaves >= 0

\* C16: with no request in flight, timesClicked of a share link is the
\* number of GET /share/:shortCode requests answered successfully for it,
\* concurrent requests included.
C16_ClicksCounted ==
  (\A p \in Procs : shareProcs[p] = Idle) =>
    \A l \in share_links : l.timesClicked = shareOk[l.shortCode]

\* C17: the repository of a user never holds more than one list record
\* with isDefault = true, after any sequence or interleaving of first-login
\* tracking, POST /collections, clone and update requests.
C17_OneDefaultList ==
  \A did \in Users \cup NewUsers :
    Cardinality({l \in RepoLists(lists, did) : l.isDefault}) <= 1

\* The routes that update, reorder or delete a list or a list item.
ModifyRoutes ==
  {"PUT /:listUri", "DELETE /:listUri", "PUT /:listUri/items/:itemUri",
   "PUT /:listUri/reorder", "DELETE /:listUri/items/:itemUri"}

\* The step answers a signed-in request to one of these routes whose
\* target AT-URI carries another DID than the session.
ForeignRequest ==
  /\ last'.route \in ModifyRoutes
  /\ last'.did # NoVal
  /\ last'.did # last'.uri.did

\* The list and list-item records the step created, changed or removed.
RecordsTouched ==
  ((lists \ lists') \cup (lists' \ lists))
    \cup ((listitems \ listitems') \cup (listitems' \ listitems))

C19_OnlyPublicShown ==
  /\ last.route = "GET /public/:did" =>
       \A u \in last.shown :
         \E l \in lists : /\ l.uri = u
                          /\ l.uri.did = last.uri.did
                          /\ l.visibility \in {"public", NoVal}
  /\ last.route = "GET /public/:did/in-progress" =>
       \A u \in last.shown :
         \E i \in listitems :
           /\ i.uri = u
           /\ i.uri.did = last.uri.did
           /\ \E l \in lists : /\ l.uri = i.list
                               /\ l.uri.did = last.uri.did
                               /\ l.visibility \in {"public", NoVal}

\* did:u1 has a private list and the Inbox without visibility; the
\* response shows the Inbox and not the private list.
C19_Witness ==
  /\ last.route = "GET /public/:did"
  /\ last.uri.did = "did:u1"
  /\ \E l \in lists :
       l.uri.did = "did:u1" /\ l.visibility = "private"
       /\ l.uri \notin last.shown
  /\ \E l \in lists : l.visibility = NoVal /\ l.uri \in last.shown

\* C20: after any sequence or interleaving of POST /:listUri/items
\* requests, no list of a repository holds two items with the same
\* mediaItemId, nor two items without mediaItemId and with the same title.
C20_NoDuplicateItems ==
  \A i \in listitems, j \in listitems :
    (i # j /\ i.uri.did = j.uri.did /\ i.list = j.list) =>
      /\ (i.mediaItemId # NoId /\ j.mediaItemId # NoId) =>
           i.mediaItemId # j.mediaItemId
      /\ (i.mediaItemId = NoId /\ j.mediaItemId = NoId) => i.title # j.title

\* The (media item, user) pairs that carry the tag in the rows.
TaggedPairs(rows, tagId) ==
  {<<t.media_item_id, t.user_did>> : t \in {r \in rows : r.tag_id = tagId}}

\* A merge of source into target that was answered 200.
MergeCompleted(did, source, target) ==
  /\ TagsMerge(did, source, target)
  /\ last'.status = 200

\* C21: after POST /admin/tags/merge of a source tag into a target tag
\* completes, every (media item, user) pair that carried the source tag or
\* the target tag before carries the target tag, and no row carries the
\* source tag.  (A row is its primary key, so a pair carries a tag once.)
C21_MergeKeepsPairs ==
  [][\A did \in AdminRequesters, source \in TagIds, target \in TagIds :
       MergeCompleted(did, source, target) =>
         /\ (TaggedPairs(media_item_tags, source.v)
                \cup TaggedPairs(media_item_tags, target.v))
              \subseteq TaggedPairs(media_item_tags', target.v)
         /\ TaggedPairs(media_item_tags', source.v) = {}]_vars

\* POST /media/:itemId/tags by a signed-in requester, with a name whose
\* slug is not empty, for a media item that exists.
TagRequest(did, itemId, tagName) ==
  /\ did # NoVal
  /\ normalizeTag(tagName) # <<>>
  /\ \E m \in media_items : m.id = itemId
  /\ TagAdd(did, itemId, tagName)

\* The requester's rows on the item under an active tag with the slug.
TaggedActive(did, itemId, slug) ==
  {t \in media_item_tags :
     /\ t.media_item_id = itemId
     /\ t.user_did = did
     /\ \E g \in tags : g.id = t.tag_id /\ g.slug = slug /\ g.status = "active"}

\* C22: POST /media/:itemId/tags with a name whose slug is not empty, for
\* a media item that exists, ends either with the requester associated to
\* an active tag having that slug or with 400 because the requester had
\* added it already, and never with 500, whatever was added and merged
\* before.
C22_TagAddNever500 ==
  [][\A did \in AdminRequesters, itemId \in {1, 2}, tagName \in TagNames :
       TagRequest(did, itemId, tagName) =>
         \/ /\ last'.status = 200
            /\ TaggedActive(did, itemId, normalizeTag(tagName))' # {}
         \/ /\ last'.status = 400
            /\ TaggedActive(did, itemId, normalizeTag(tagName)) # {}]_vars

\* No row of a local table carries the DID.
NoRowOf(did) ==
  /\ \A u \in users : u.did # did
  /\ \A r \in BagToSet(reviews) : r.authorDid # did
  /\ \A f \in feedback : f.userDid # did
  /\ \A e \in feed_events : e.userDid # did
  /\ \A l \in share_links : l.userDid # did
  /\ \A c \in comments : c.user_did # did
  /\ \A r \in reactions : r.userDid # did
  /\ \A t \in media_item_tags : t.user_did # did
  /\ \A t \in tag_reports : t.reporter_did # did

\* C23: after DELETE /users/me is answered 200, no row of users, reviews,
\* feedback, feed_events, share_links, comments, reactions,
\* media_item_tags or tag_reports refers to the DID of the requester.
C23_NoRowSurvives ==
  [][\A did \in AdminRequesters :
       (UserDelete(did) /\ last'.status = 200) => NoRowOf(did)']_vars

====
